---- MODULE Spec2Model ----
(***************************************************************************)
(* Host-side simulation of the capture-the-flag arena (2D build with       *)
(* shooting): src/src/game/physics.ts, src/src/game/engine.ts,             *)
(* src/unnamed/part_009 (2D engine), src/unnamed/part_005 (map),           *)
(* src/unnamed/part_006 (constants), src/unnamed/part_002 (HostManager),   *)
(* and the snapshot codec of src/unnamed/part_003.                         *)
(*                                                                         *)
(* Units of the simulation: positions in pixels, times in centiseconds     *)
(* (1/100 s), speeds in pixels per second, all of them integers.  The      *)
(* codec has units of its own, see there.                                  *)
(***************************************************************************)
EXTENDS Integers, Sequences, FiniteSets, TLC

\* ------------------------------------------------------------------------
\* Program constants (src/unnamed/part_006), times scaled to centiseconds
\* ------------------------------------------------------------------------
PLAYER_SPEED == 200
PLAYER_RADIUS == 12
DASH_SPEED == 500
DASH_DURATION == 18
DASH_COOLDOWN == 300
FLAG_PICKUP_RADIUS == 20
FLAG_SCORE_RADIUS == 24
FLAG_RETURN_TIME == 3000
FLAG_TOUCH_RETURN_RADIUS == 24
BULLET_SPEED == 600
BULLET_RADIUS == 3
SHOOT_COOLDOWN == 40
RESPAWN_TIME == 200
POWERUP_SPAWN_INTERVAL == 1500
SPEED_BOOST_PERCENT == 150
SPEED_BOOST_DURATION == 500
SHIELD_DURATION == 800
SCORE_TO_WIN == 3
COUNTDOWN_TIME == 300
TILE_SIZE == 32
MAP_COLS == 40
MAP_ROWS == 25

\* Literals of the source
BASE_TOLERANCE == 16
POWERUP_PICKUP_RADIUS == 20
POWERUP_SLOT_SIZE == 32
MAX_ACTIVE_POWERUPS == 3
BULLET_LIFE == 150
BULLET_MUZZLE_GAP == 4
REMOVED_CARRIER_DROP_TIME == 500

\* ------------------------------------------------------------------------
\* Bounds of the model
\* ------------------------------------------------------------------------
\* The three time steps of the code, coarsened: the frame's dt handed to
\* updatePlayer, the fixed step of updateGameLogic and the fixed step of
\* updateProjectiles (both 1/60 s in the source).
FrameDt == 150
LogicDt == 500
BulletDt == 69
\* At most this many projectiles are in flight / power-ups were ever spawned.
MaxProjectiles == 1
MaxPowerUps == 2
\* The engine's frame counter (state.tick) stops the simulation here.
MaxTick == 5

Teams == {"blue", "red"}
NoId == "none"
LocalId == "a"
PlayerOrder == <<"a", "b">>
PlayerIds == {PlayerOrder[i] : i \in 1..Len(PlayerOrder)}
\* a third player, who joins the local player's team after the two above
ThirdId == "c"
JoinOrder == Append(PlayerOrder, ThirdId)
LobbyTeam(id) == IF id = "b" THEN "red" ELSE "blue"
LobbySpawnIndex(id) == 0

Other(team) == IF team = "blue" THEN "red" ELSE "blue"

\* ------------------------------------------------------------------------
\* Map (src/unnamed/part_005)
\* ------------------------------------------------------------------------
Pt(x, y) == [x |-> x, y |-> y]

BLUE_FLAG_POS == Pt(6 * TILE_SIZE + TILE_SIZE \div 2, 12 * TILE_SIZE + TILE_SIZE \div 2)
RED_FLAG_POS == Pt(33 * TILE_SIZE + TILE_SIZE \div 2, 12 * TILE_SIZE + TILE_SIZE \div 2)

BLUE_SPAWNS == << Pt(4 * TILE_SIZE + TILE_SIZE \div 2, 10 * TILE_SIZE + TILE_SIZE \div 2),
                  Pt(4 * TILE_SIZE + TILE_SIZE \div 2, 12 * TILE_SIZE + TILE_SIZE \div 2),
                  Pt(4 * TILE_SIZE + TILE_SIZE \div 2, 14 * TILE_SIZE + TILE_SIZE \div 2) >>
RED_SPAWNS == << Pt(35 * TILE_SIZE + TILE_SIZE \div 2, 10 * TILE_SIZE + TILE_SIZE \div 2),
                 Pt(35 * TILE_SIZE + TILE_SIZE \div 2, 12 * TILE_SIZE + TILE_SIZE \div 2),
                 Pt(35 * TILE_SIZE + TILE_SIZE \div 2, 14 * TILE_SIZE + TILE_SIZE \div 2) >>

POWERUP_LOCATIONS == << Pt(20 * TILE_SIZE + TILE_SIZE \div 2, 5 * TILE_SIZE + TILE_SIZE \div 2),
                        Pt(20 * TILE_SIZE + TILE_SIZE \div 2, 19 * TILE_SIZE + TILE_SIZE \div 2),
                        Pt(13 * TILE_SIZE + TILE_SIZE \div 2, 12 * TILE_SIZE + TILE_SIZE \div 2),
                        Pt(27 * TILE_SIZE + TILE_SIZE \div 2, 12 * TILE_SIZE + TILE_SIZE \div 2),
                        Pt(20 * TILE_SIZE + TILE_SIZE \div 2, 12 * TILE_SIZE + TILE_SIZE \div 2) >>

SpawnsOf(team) == IF team = "blue" THEN BLUE_SPAWNS ELSE RED_SPAWNS
BaseOf(team) == IF team = "blue" THEN BLUE_FLAG_POS ELSE RED_FLAG_POS

\* MAP_STRING parsed by parseMap: the wall columns of each row.  Rows 22..24
\* are missing from the string and are floor; columns past the end of a line
\* are floor.
FullRow == 0..(MAP_COLS - 1)
WallCols(row) ==
  CASE row \in {0, 21} -> FullRow
    [] row \in {1, 20} -> {0, 17, 18, 35}
    [] row \in {6, 15} -> {0, 4, 5, 6, 7, 30, 31, 32, 33, 37}
    [] row \in {8, 13} -> {0, 8, 9, 28, 29, 37}
    [] row \in {10, 11} -> {0, 33}
    [] row \in {22, 23, 24} -> {}
    [] OTHER -> {0, 37}

isWall(col, row) ==
  IF col < 0 \/ col >= MAP_COLS \/ row < 0 \/ row >= MAP_ROWS THEN TRUE
  ELSE col \in WallCols(row)

worldToTile(x, y) == [col |-> x \div TILE_SIZE, row |-> y \div TILE_SIZE]

\* Math.sqrt(dx*dx + dy*dy) < r, on integers
Within(x1, y1, x2, y2, r) ==
  (x1 - x2) * (x1 - x2) + (y1 - y2) * (y1 - y2) < r * r

Abs(n) == IF n < 0 THEN -n ELSE n
Sign(n) == IF n < 0 THEN -1 ELSE IF n > 0 THEN 1 ELSE 0

\* ------------------------------------------------------------------------
\* Waypoints: the positions a player can stand on in the model.  The
\* integration of velocity and the push-out of collideWithWalls are
\* abstracted to one step between neighbouring waypoints per frame, in the
\* direction of the velocity.  The corridor is the map row of both flags
\* (y = 400): the spawn columns, a point NearFlag pixels inside of each flag
\* and the centre of the map, within reach of power-up location 5.  Each spawn
\* column joins the first spawn row to the corridor.  All of them are floor.
\* ------------------------------------------------------------------------
NearFlag == 8
CorridorY == BLUE_FLAG_POS.y
CorridorXs == << BLUE_SPAWNS[1].x, BLUE_FLAG_POS.x + NearFlag, (MAP_COLS * TILE_SIZE) \div 2,
                 RED_FLAG_POS.x - NearFlag, RED_SPAWNS[1].x >>
SpawnYs == << BLUE_SPAWNS[1].y, BLUE_SPAWNS[2].y >>

\* the waypoints of the column at x, top to bottom
ColumnYs(x) ==
  IF x \in {BLUE_SPAWNS[1].x, RED_SPAWNS[1].x} THEN SpawnYs
  ELSE << CorridorY >>

IndexOf(seq, v) == CHOOSE i \in 1..Len(seq) : seq[i] = v
ClampIdx(i, n) == IF i < 1 THEN 1 ELSE IF i > n THEN n ELSE i

MoveAlong(seq, v, s) == seq[ClampIdx(IndexOf(seq, v) + s, Len(seq))]

\* a step along the column, then a step along the corridor if it is reached
MovePlayer(x, y, vx, vy) ==
  LET ny == IF vy # 0 THEN MoveAlong(ColumnYs(x), y, Sign(vy)) ELSE y
      nx == IF ny = CorridorY /\ vx # 0 THEN MoveAlong(CorridorXs, x, Sign(vx)) ELSE x
  IN Pt(nx, ny)

\* ------------------------------------------------------------------------
\* Input (src/src/game/input.ts, src/src/game/types.ts)
\* ------------------------------------------------------------------------
Bit(v, b) == (v \div b) % 2 = 1

\* InputManager.decode
decodeInput(v) ==
  [up |-> Bit(v, 1), down |-> Bit(v, 2), left |-> Bit(v, 4), right |-> Bit(v, 8),
   dash |-> Bit(v, 16)]

\* the encoded inputs the model draws from: idle, down-left, down-right
MoveKeys == {0, 6, 10}

\* ------------------------------------------------------------------------
\* createPlayer, createInitialGameState (src/src/game/physics.ts)
\* ------------------------------------------------------------------------
createPlayer(id, team, spawnIndex) ==
  LET spawns == SpawnsOf(team)
      spawn == spawns[(spawnIndex % Len(spawns)) + 1]
  IN [id |-> id, team |-> team, x |-> spawn.x, y |-> spawn.y, vx |-> 0, vy |-> 0,
      state |-> "alive", dashCooldown |-> 0, isDashing |-> FALSE, dashTimer |-> 0,
      respawnTimer |-> 0, shieldActive |-> FALSE, shieldTimer |-> 0,
      speedBoostActive |-> FALSE, speedBoostTimer |-> 0, shootCooldown |-> 0]

createFlag(team) ==
  [team |-> team, x |-> BaseOf(team).x, y |-> BaseOf(team).y,
   baseX |-> BaseOf(team).x, baseY |-> BaseOf(team).y,
   carrierId |-> NoId, dropTimer |-> 0]

createInitialGameState ==
  [players |-> << >>,
   flags |-> [t \in Teams |-> createFlag(t)],
   score |-> [t \in Teams |-> 0],
   powerUps |-> << >>,
   projectiles |-> << >>,
   gamePhase |-> "waiting",
   countdownTimer |-> 0,
   winner |-> NoId,
   powerUpSpawnTimer |-> POWERUP_SPAWN_INTERVAL,
   tick |-> 0]


\* ------------------------------------------------------------------------
\* updatePlayer (src/src/game/physics.ts:29-115)
\* ------------------------------------------------------------------------
TickDown(v, dt) == IF v > 0 THEN v - dt ELSE v

ISqrt(n) == CHOOSE r \in 0..n : r * r <= n /\ n < (r + 1) * (r + 1)

\* the unit direction of the directional flags, in thousandths
TargetDir(input) ==
  LET dx == (IF input.right THEN 1 ELSE 0) - (IF input.left THEN 1 ELSE 0)
      dy == (IF input.down THEN 1 ELSE 0) - (IF input.up THEN 1 ELSE 0)
  IN IF dx # 0 /\ dy # 0 THEN Pt(dx * 707, dy * 707) ELSE Pt(dx * 1000, dy * 1000)

\* velocity approaches the target by at most `change` (clamped linear steering)
ApproachVelocity(vx, vy, tx, ty, change) ==
  LET dvx == tx - vx
      dvy == ty - vy
      d2 == dvx * dvx + dvy * dvy
  IN IF d2 = 0 THEN Pt(vx, vy)
     ELSE IF change * change >= d2 THEN Pt(tx, ty)
     ELSE IF dvy = 0 THEN Pt(vx + Sign(dvx) * change, vy)
     ELSE IF dvx = 0 THEN Pt(vx, vy + Sign(dvy) * change)
     ELSE Pt(vx + (dvx * change) \div ISqrt(d2), vy + (dvy * change) \div ISqrt(d2))

\* d thousandths of speed, rounded toward zero
Scale(d, speed) == Sign(d) * ((Abs(d) * speed) \div 1000)

\* the dash guard without the test of the cooldown
StartsDashNoCooldown(p, input, dashCooldown1) == input.dash /\ ~p.isDashing

\* the test that begins a dash, on the cooldown already counted down
StartsDash(p, input, dashCooldown1) == input.dash /\ dashCooldown1 <= 0 /\ ~p.isDashing

PLAYER_ACCEL == 1600
PLAYER_DECEL == 1200

updatePlayer(p, input, dt) ==
  IF p.state = "dead"
  THEN [p EXCEPT !.respawnTimer = @ - dt, !.vx = 0, !.vy = 0]
  ELSE
    LET dashCooldown1 == TickDown(p.dashCooldown, dt)
        shootCooldown1 == TickDown(p.shootCooldown, dt)
        shieldTimer1 == TickDown(p.shieldTimer, dt)
        shieldActive1 == IF p.shieldTimer > 0 /\ shieldTimer1 <= 0 THEN FALSE ELSE p.shieldActive
        speedBoostTimer1 == TickDown(p.speedBoostTimer, dt)
        speedBoostActive1 == IF p.speedBoostTimer > 0 /\ speedBoostTimer1 <= 0
                             THEN FALSE ELSE p.speedBoostActive
        \* Dash
        startDash == StartsDash(p, input, dashCooldown1)
        isDashing2 == p.isDashing \/ startDash
        dashTimer2 == IF startDash THEN DASH_DURATION ELSE p.dashTimer
        dashCooldown2 == IF startDash THEN DASH_COOLDOWN ELSE dashCooldown1
        dashTimer3 == IF isDashing2 THEN dashTimer2 - dt ELSE dashTimer2
        isDashing3 == isDashing2 /\ ~(dashTimer3 <= 0)
        \* Target velocity
        dir == TargetDir(input)
        moving == dir.x # 0 \/ dir.y # 0
        speed0 == IF isDashing3 THEN DASH_SPEED ELSE PLAYER_SPEED
        speed == IF speedBoostActive1 THEN (speed0 * SPEED_BOOST_PERCENT) \div 100 ELSE speed0
        accel == IF moving THEN PLAYER_ACCEL ELSE PLAYER_DECEL
        v == ApproachVelocity(p.vx, p.vy, Scale(dir.x, speed), Scale(dir.y, speed),
                              (accel * dt) \div 100)
        \* Move, wall collision
        pos == MovePlayer(p.x, p.y, v.x, v.y)
    IN [p EXCEPT !.dashCooldown = dashCooldown2, !.shootCooldown = shootCooldown1,
                 !.shieldTimer = shieldTimer1, !.shieldActive = shieldActive1,
                 !.speedBoostTimer = speedBoostTimer1, !.speedBoostActive = speedBoostActive1,
                 !.isDashing = isDashing3, !.dashTimer = dashTimer3,
                 !.vx = v.x, !.vy = v.y, !.x = pos.x, !.y = pos.y]

\* ------------------------------------------------------------------------
\* Game logic (src/src/game/physics.ts:117-414).  `st` is the GameState.
\* The event feed, particles, camera shake and sounds are left out: the
\* simulation never reads them.
\* ------------------------------------------------------------------------
\* Object.values(players): insertion order of the ids still present
OrderOf(players) == SelectSeq(JoinOrder, LAMBDA id : id \in DOMAIN players)

RemoveAt(seq, i) == SubSeq(seq, 1, i - 1) \o SubSeq(seq, i + 1, Len(seq))

\* killPlayer without the drop of the carried flag
killPlayerKeepFlag(st, vid) ==
  [st EXCEPT !.players[vid] = [@ EXCEPT !.state = "dead", !.respawnTimer = RESPAWN_TIME]]

killPlayer(st, vid) ==
  LET victim == st.players[vid]
      carried == Other(victim.team)
      flags1 == IF victim.state = "carrying"
                THEN [st.flags EXCEPT ![carried] =
                        [@ EXCEPT !.x = victim.x, !.y = victim.y,
                                  !.carrierId = NoId, !.dropTimer = FLAG_RETURN_TIME]]
                ELSE st.flags
  IN [st EXCEPT !.flags = flags1,
                !.players[vid] = [@ EXCEPT !.state = "dead", !.respawnTimer = RESPAWN_TIME]]

\* the players a bullet at (x, y) of `team` hits, in iteration order
HitTargets(st, b) ==
  SelectSeq(OrderOf(st.players),
            LAMBDA id : /\ st.players[id].team # b.team
                        /\ st.players[id].state # "dead"
                        /\ Within(b.x, b.y, st.players[id].x, st.players[id].y,
                                  PLAYER_RADIUS + BULLET_RADIUS))

\* what a hit did: the victim and the flag it could carry, before and after,
\* the moved bullet b = projectiles[i], the players that differ after the
\* iteration and whether the bullet was spliced out
HitRecord(before, after, vid, b, i) ==
  [victim |-> before.players[vid], victimAfter |-> after.players[vid],
   flagAfter |-> after.flags[Other(before.players[vid].team)],
   id |-> vid, bullet |-> b, index |-> i,
   changed |-> {id \in DOMAIN before.players : after.players[id] # before.players[id]},
   removed |-> after.projectiles = RemoveAt(before.projectiles, i)]

\* the hit of a bullet on one player: the shield goes, or the player dies
hitPlayer(st, vid) ==
  IF st.players[vid].shieldActive
  THEN [st EXCEPT !.players[vid] = [@ EXCEPT !.shieldActive = FALSE, !.shieldTimer = 0]]
  ELSE killPlayer(st, vid)

RECURSIVE hitEach(_, _)
hitEach(st, targets) ==
  IF targets = << >> THEN st ELSE hitEach(hitPlayer(st, Head(targets)), Tail(targets))

\* the loop iteration without the break after the first target
StepBulletNoBreak(st, i) ==
  LET b0 == st.projectiles[i]
      b == [b0 EXCEPT !.x = @ + (b0.vx * BulletDt) \div 100,
                      !.y = @ + (b0.vy * BulletDt) \div 100,
                      !.life = @ - BulletDt]
      tile == worldToTile(b.x, b.y)
      targets == HitTargets(st, b)
      removed == RemoveAt(st.projectiles, i)
  IN IF b.life <= 0 THEN [st EXCEPT !.projectiles = removed]
     ELSE IF isWall(tile.col, tile.row) THEN [st EXCEPT !.projectiles = removed]
     ELSE IF targets # << >>
          THEN LET after == [hitEach(st, targets) EXCEPT !.projectiles = removed]
               IN [after EXCEPT !.hits = Append(@, HitRecord(st, after, Head(targets), b, i))]
     ELSE [st EXCEPT !.projectiles[i] = b]

\* one iteration of the loop of updateProjectiles, for projectiles[i];
\* gone: why a projectile was spliced out, and the life it had left
StepBullet(st, i) ==
  LET b0 == st.projectiles[i]
      b == [b0 EXCEPT !.x = @ + (b0.vx * BulletDt) \div 100,
                      !.y = @ + (b0.vy * BulletDt) \div 100,
                      !.life = @ - BulletDt]
      tile == worldToTile(b.x, b.y)
      targets == HitTargets(st, b)
      removed == RemoveAt(st.projectiles, i)
      left(why) == Append(st.gone, [why |-> why, life |-> b.life])
  IN IF b.life <= 0 THEN [st EXCEPT !.projectiles = removed, !.gone = left("expired")]
     ELSE IF isWall(tile.col, tile.row)
          THEN [st EXCEPT !.projectiles = removed, !.gone = left("wall")]
     ELSE IF targets # << >>
          THEN LET vid == Head(targets)
                   after == [hitPlayer(st, vid) EXCEPT !.projectiles = removed,
                                                       !.gone = left("hit")]
               IN [after EXCEPT !.hits = Append(@, HitRecord(st, after, vid, b, i))]
     ELSE [st EXCEPT !.projectiles[i] = b]

RECURSIVE BulletLoop(_, _)
BulletLoop(st, i) == IF i = 0 THEN st ELSE BulletLoop(StepBullet(st, i), i - 1)

\* the variant below leaves the last projectile of the list out of the loop
updateProjectilesButLast(st) ==
  IF st.projectiles = << >> THEN st ELSE BulletLoop(st, Len(st.projectiles) - 1)

updateProjectiles(st) == BulletLoop(st, Len(st.projectiles))

ActiveCount(powerUps) == Cardinality({i \in 1..Len(powerUps) : powerUps[i].active})

PowerUpTypes == {"speed", "shield", "dash_reset"}

\* the variant below spawns at the drawn location whatever lies there
spawnPowerUpAnywhere(powerUps, type, loc) ==
  Append(powerUps, [id |-> Len(powerUps) + 1, type |-> type,
                    x |-> loc.x, y |-> loc.y, active |-> TRUE])

spawnPowerUp(powerUps, type, loc) ==
  IF \E i \in 1..Len(powerUps) :
        /\ powerUps[i].active
        /\ Abs(powerUps[i].x - loc.x) < POWERUP_SLOT_SIZE
        /\ Abs(powerUps[i].y - loc.y) < POWERUP_SLOT_SIZE
  THEN powerUps
  ELSE Append(powerUps, [id |-> Len(powerUps) + 1, type |-> type,
                         x |-> loc.x, y |-> loc.y, active |-> TRUE])

PowerUpSpawnDue(st) ==
  st.powerUpSpawnTimer - LogicDt <= 0 /\ ActiveCount(st.powerUps) < MAX_ACTIVE_POWERUPS

\* what a due spawn did: the number of power-ups it added and whether a new
\* one lies where no active one lay before
NoSpawn == [due |-> FALSE, added |-> 0, free |-> TRUE]
SpawnRecord(before, after) ==
  [due |-> TRUE,
   added |-> Len(after) - Len(before),
   free |-> \A i \in (Len(before) + 1)..Len(after) :
               /\ after[i].active
               /\ \A j \in 1..Len(before) :
                     before[j].active => after[i].x # before[j].x \/ after[i].y # before[j].y]

SpawnTimerStep(st, type, loc) ==
  IF PowerUpSpawnDue(st)
  THEN LET spawned == spawnPowerUp(st.powerUps, type, loc)
       IN [st EXCEPT !.powerUpSpawnTimer = POWERUP_SPAWN_INTERVAL,
                     !.powerUps = spawned,
                     !.spawn = SpawnRecord(st.powerUps, spawned)]
  ELSE [st EXCEPT !.powerUpSpawnTimer = @ - LogicDt]

\* carried flag follows its carrier; dropped flag counts down and returns
FlagStep(st, team) ==
  LET f == st.flags[team]
      f1 == IF f.carrierId # NoId /\ f.carrierId \in DOMAIN st.players
            THEN [f EXCEPT !.x = st.players[f.carrierId].x, !.y = st.players[f.carrierId].y]
            ELSE f
      f2 == IF f1.carrierId = NoId /\ f1.dropTimer > 0
            THEN IF f1.dropTimer - LogicDt <= 0
                 THEN [f1 EXCEPT !.dropTimer = @ - LogicDt, !.x = f1.baseX, !.y = f1.baseY]
                 ELSE [f1 EXCEPT !.dropTimer = @ - LogicDt]
            ELSE f1
  IN [st EXCEPT !.flags[team] = f2]

\* the respawn without the test of respawnTimer
RespawnAtOnce(st, id, spawnIdx) ==
  LET spawn == SpawnsOf(st.players[id].team)[spawnIdx + 1]
  IN [st EXCEPT !.players[id] = [@ EXCEPT !.x = spawn.x, !.y = spawn.y,
                                          !.state = "alive", !.vx = 0, !.vy = 0],
                !.respawned = @ \cup {id}]

Respawn(st, id, spawnIdx) ==
  LET p == st.players[id]
      spawn == SpawnsOf(p.team)[spawnIdx + 1]
  IN IF p.respawnTimer <= 0
     THEN [st EXCEPT !.players[id] = [@ EXCEPT !.x = spawn.x, !.y = spawn.y,
                                                !.state = "alive", !.vx = 0, !.vy = 0],
                     !.respawned = @ \cup {id}]
     ELSE st

\* the variant below returns whichever flag the player touches
TouchReturnEither(st, id) ==
  LET p == st.players[id]
      touched == {t \in Teams : /\ st.flags[t].carrierId = NoId
                                /\ st.flags[t].dropTimer > 0
                                /\ Within(p.x, p.y, st.flags[t].x, st.flags[t].y,
                                          FLAG_TOUCH_RETURN_RADIUS)}
  IN [st EXCEPT !.flags = [t \in Teams |->
                             IF t \in touched
                             THEN [st.flags[t] EXCEPT !.x = st.flags[t].baseX,
                                                      !.y = st.flags[t].baseY,
                                                      !.dropTimer = 0]
                             ELSE st.flags[t]]]

TouchReturn(st, id) ==
  LET p == st.players[id]
      ownFlag == st.flags[p.team]
  IN IF /\ ownFlag.carrierId = NoId
        /\ ownFlag.dropTimer > 0
        /\ Within(p.x, p.y, ownFlag.x, ownFlag.y, FLAG_TOUCH_RETURN_RADIUS)
     THEN [st EXCEPT !.flags[p.team] = [@ EXCEPT !.x = ownFlag.baseX, !.y = ownFlag.baseY,
                                                 !.dropTimer = 0]]
     ELSE st

\* the variant below marks the player as carrying and leaves the flag's carrier
PickupNoCarrier(st, id) ==
  LET p == st.players[id]
      enemyFlag == st.flags[Other(p.team)]
  IN IF /\ enemyFlag.carrierId = NoId
        /\ p.state = "alive"
        /\ Within(p.x, p.y, enemyFlag.x, enemyFlag.y, FLAG_PICKUP_RADIUS)
     THEN [st EXCEPT !.players[id].state = "carrying"]
     ELSE st

Pickup(st, id) ==
  LET p == st.players[id]
      enemyFlag == st.flags[Other(p.team)]
  IN IF /\ enemyFlag.carrierId = NoId
        /\ p.state = "alive"
        /\ Within(p.x, p.y, enemyFlag.x, enemyFlag.y, FLAG_PICKUP_RADIUS)
     THEN [st EXCEPT !.flags[Other(p.team)].carrierId = id,
                     !.players[id].state = "carrying"]
     ELSE st

\* the scoring test of a player, at the moment the scoring check runs
OwnFlagAtBase(st, team) ==
  /\ st.flags[team].carrierId = NoId
  /\ Abs(st.flags[team].x - BaseOf(team).x) < BASE_TOLERANCE
  /\ Abs(st.flags[team].y - BaseOf(team).y) < BASE_TOLERANCE

\* the scoring conditions without the test of the team's own flag
CanScoreAnyFlag(st, id) ==
  LET p == st.players[id]
  IN /\ p.state = "carrying"
     /\ Within(p.x, p.y, BaseOf(p.team).x, BaseOf(p.team).y, FLAG_SCORE_RADIUS)

CanScore(st, id) ==
  LET p == st.players[id]
  IN /\ p.state = "carrying"
     /\ OwnFlagAtBase(st, p.team)
     /\ Within(p.x, p.y, BaseOf(p.team).x, BaseOf(p.team).y, FLAG_SCORE_RADIUS)

\* the scoring step without the end of the match
ScoringNoWin(st, id) ==
  LET p == st.players[id]
      enemy == Other(p.team)
      scored == [st EXCEPT !.score[p.team] = @ + 1,
                           !.flags[enemy] = [@ EXCEPT !.carrierId = NoId,
                                                      !.x = st.flags[enemy].baseX,
                                                      !.y = st.flags[enemy].baseY,
                                                      !.dropTimer = 0],
                           !.players[id].state = "alive"]
  IN IF CanScore(st, id) THEN scored ELSE st

Scoring(st, id) ==
  LET p == st.players[id]
      enemy == Other(p.team)
      newScore == st.score[p.team] + 1
      scored == [st EXCEPT !.score[p.team] = newScore,
                           !.flags[enemy] = [@ EXCEPT !.carrierId = NoId,
                                                      !.x = st.flags[enemy].baseX,
                                                      !.y = st.flags[enemy].baseY,
                                                      !.dropTimer = 0],
                           !.players[id].state = "alive"]
  IN IF CanScore(st, id)
     THEN IF newScore >= SCORE_TO_WIN
          THEN [scored EXCEPT !.gamePhase = "gameover", !.winner = p.team]
          ELSE scored
     ELSE st

ApplyPowerUp(p, type) ==
  CASE type = "speed" -> [p EXCEPT !.speedBoostActive = TRUE,
                                   !.speedBoostTimer = SPEED_BOOST_DURATION]
    [] type = "shield" -> [p EXCEPT !.shieldActive = TRUE, !.shieldTimer = SHIELD_DURATION]
    [] OTHER -> [p EXCEPT !.dashCooldown = 0]

\* a collection: the power-up, its index, the collector and the collector's
\* state when the distance test ran
TakeRecord(st, id, i) ==
  [pu |-> st.powerUps[i].id, index |-> i, by |-> id, state |-> st.players[id].state]

RECURSIVE CollectPowerUps(_, _, _)
CollectPowerUps(st, id, i) ==
  IF i > Len(st.powerUps) THEN st
  ELSE LET pu == st.powerUps[i]
           p == st.players[id]
       IN IF pu.active /\ Within(p.x, p.y, pu.x, pu.y, POWERUP_PICKUP_RADIUS)
          THEN CollectPowerUps([st EXCEPT !.powerUps[i].active = FALSE,
                                          !.players[id] = ApplyPowerUp(p, pu.type),
                                          !.collected = @ \cup {<<id, pu.type>>},
                                          !.taken = Append(@, TakeRecord(st, id, i))],
                               id, i + 1)
          ELSE CollectPowerUps(st, id, i + 1)

\* the body of the per-player loop of updateGameLogic
\* what the scoring check of a player saw, and the team's score around it
CheckRecord(before, after, id) ==
  LET p == before.players[id]
      own == before.flags[p.team]
      base == BaseOf(p.team)
  IN [id |-> id, team |-> p.team,
      carrying |-> p.state = "carrying",
      distSq |-> (p.x - base.x) * (p.x - base.x) + (p.y - base.y) * (p.y - base.y),
      ownCarrier |-> own.carrierId,
      ownOffX |-> Abs(own.x - base.x), ownOffY |-> Abs(own.y - base.y),
      scoreBefore |-> before.score[p.team], scoreAfter |-> after.score[p.team],
      stateAfter |-> after.players[id].state, enemyAfter |-> after.flags[Other(p.team)],
      phaseAfter |-> after.gamePhase, winnerAfter |-> after.winner]

\* the pickup test of a player, at the moment it runs, and what came of it
PickRecord(before, after, id) ==
  LET p == before.players[id]
      enemyFlag == before.flags[Other(p.team)]
  IN [id |-> id, team |-> p.team,
      alive |-> p.state = "alive",
      uncarried |-> enemyFlag.carrierId = NoId,
      near |-> Within(p.x, p.y, enemyFlag.x, enemyFlag.y, FLAG_PICKUP_RADIUS),
      stateAfter |-> after.players[id].state,
      carrierAfter |-> after.flags[Other(p.team)].carrierId]

\* a player's turn at the flag return: the player and both flags as the turn
\* found them, and the flags as the return left them
TouchRecord(before, after, id) ==
  LET p == before.players[id]
      ownFlag == before.flags[p.team]
      other == before.flags[Other(p.team)]
      left == after.flags[p.team]
  IN [id |-> id, team |-> p.team, state |-> p.state,
      dropped |-> ownFlag.carrierId = NoId /\ ownFlag.dropTimer > 0,
      near |-> Within(p.x, p.y, ownFlag.x, ownFlag.y, FLAG_TOUCH_RETURN_RADIUS),
      otherDropped |-> other.carrierId = NoId /\ other.dropTimer > 0,
      nearOther |-> Within(p.x, p.y, other.x, other.y, FLAG_TOUCH_RETURN_RADIUS),
      ownSame |-> left = ownFlag,
      otherSame |-> after.flags[Other(p.team)] = other,
      homeAfter |-> /\ left.x = left.baseX /\ left.y = left.baseY
                    /\ left.dropTimer = 0 /\ left.carrierId = NoId]

PlayerLogic(st, id, spawnIdx) ==
  IF st.players[id].state = "dead"
  THEN LET s0 == Respawn(st, id, spawnIdx)
       IN [s0 EXCEPT !.touches = Append(@, TouchRecord(st, s0, id))]
  ELSE LET s0 == TouchReturn(st, id)
           s1 == Pickup(s0, id)
           s2 == Scoring(s1, id)
       IN CollectPowerUps([s2 EXCEPT !.checks = Append(@, CheckRecord(s1, s2, id)),
                                     !.picks = Append(@, PickRecord(s0, s1, id)),
                                     !.touches = Append(@, TouchRecord(st, s0, id))], id, 1)

RECURSIVE PlayerLoop(_, _, _)
PlayerLoop(st, order, spawnIdx) ==
  IF order = << >> THEN st
  ELSE PlayerLoop(PlayerLogic(st, Head(order), spawnIdx[Head(order)]), Tail(order), spawnIdx)

\* rnd: the draws of Math.random of this step
updateGameLogic(st, rnd) ==
  LET s1 == SpawnTimerStep(st, rnd.type, rnd.loc)
      s2 == FlagStep(FlagStep(s1, "blue"), "red")
      s3 == PlayerLoop(s2, OrderOf(s2.players), rnd.spawn)
  IN updateProjectiles(s3)


\* ------------------------------------------------------------------------
\* The host's engine (src/unnamed/part_009, src/src/game/engine.ts) and its
\* message handlers (src/unnamed/part_002)
\* ------------------------------------------------------------------------
VARIABLES players, flags, score, powerUps, projectiles, gamePhase, countdownTimer,
          winner, powerUpSpawnTimer, tick, remoteInputs, log, dashWatch, codec,
          recon, peers, inbox, peerLog, inputMgr, events, lobby

\* the variables of the engine, and those of the peers, the event feed and the
\* lobby around it
engineVars == << players, flags, score, powerUps, projectiles, gamePhase, countdownTimer,
                 winner, powerUpSpawnTimer, tick, remoteInputs, log, dashWatch, inputMgr >>
peerVars == << recon, peers, inbox, peerLog, events, lobby >>

vars == << players, flags, score, powerUps, projectiles, gamePhase, countdownTimer,
           winner, powerUpSpawnTimer, tick, remoteInputs, log, dashWatch, codec, recon,
           peers, inbox, peerLog, inputMgr, events, lobby >>

\* log: the last handler that ran and what its game-logic step did
NoLog(op) ==
  [op |-> op, dt |-> 0, checks |-> << >>, picks |-> << >>, hits |-> << >>, respawned |-> {},
   collected |-> {}, dashed |-> {}, waiting |-> {}, spawn |-> NoSpawn, taken |-> << >>,
   gone |-> << >>, was |-> 0, touches |-> << >>]

\* directions a shot is fired in (unit vectors)
ShootDirs(team) == IF team = "blue" THEN {Pt(1, 0)} ELSE {Pt(-1, 0)}
\* draws of Math.random the model follows: the spawn index of a respawn, the
\* type and the location (index into POWERUP_LOCATIONS) of a new power-up
SpawnDraws == {0, 1}
TypeDraws == {"speed", "shield"}
LocDraws == {5}

RemoteIds == PlayerIds \ {LocalId}

World ==
  [players |-> players, flags |-> flags, score |-> score, powerUps |-> powerUps,
   projectiles |-> projectiles, gamePhase |-> gamePhase, countdownTimer |-> countdownTimer,
   winner |-> winner, powerUpSpawnTimer |-> powerUpSpawnTimer, tick |-> tick,
   checks |-> << >>, picks |-> << >>, hits |-> << >>, respawned |-> {}, collected |-> {},
   dashed |-> {}, waiting |-> {}, spawn |-> NoSpawn, taken |-> << >>,
   gone |-> << >>, dt |-> 0, touches |-> << >>]

\* dashWatch, per player: the frame time since its last dash began (-1: no
\* dash yet), whether a dash_reset was collected since, the number of dashes
\* begun, and for the last one whether DASH_COOLDOWN had passed since the one
\* before and whether a dash_reset came between.  Counts and times stop at
\* MaxDashes, DASH_COOLDOWN.
MaxDashes == 3
Min(a, b) == IF a < b THEN a ELSE b

NoDash == [since |-> -1, reset |-> FALSE, n |-> 0, waited |-> FALSE, byReset |-> FALSE,
           resetDashes |-> 0, resets |-> 0]

Watch(st) ==
  [id \in PlayerIds |->
     LET w == dashWatch[id]
         got == <<id, "dash_reset">> \in st.collected
     IN IF id \in st.dashed
        THEN [since |-> 0, reset |-> got, n |-> Min(w.n + 1, MaxDashes),
              waited |-> w.since >= 0 /\ w.since + st.dt >= DASH_COOLDOWN,
              byReset |-> w.reset,
              resetDashes |-> IF w.reset THEN 1 ELSE w.resetDashes,
              resets |-> w.resets]
        ELSE IF w.since < 0 THEN w
        ELSE [w EXCEPT !.since = Min(@ + st.dt, DASH_COOLDOWN), !.reset = @ \/ got]]

\* the last key event an InputManager handled: the key, whether it went down,
\* the mask update() encoded, the last mask handed to onInputChange before the
\* event and whether update() handed this one over
NoKeyEvent == [kind |-> "none", key |-> "", mask |-> 0, before |-> 0, sent |-> FALSE]

\* inputMgr: the InputManager of the remote player's client (its held keys,
\* dashPressed, state and prevEncoded), the client-input messages on their
\* way to the host, and for the host the playing ticks since the last one
\* arrived (quiet) and the playing ticks on which the stored input had dash
\* set since the last one with dash arrived (dashTicks).  `on` is false where
\* the client is not followed.
QuietTicks == 3
MaxDashTicks == 2
NoInput ==
  [on |-> FALSE, keys |-> {}, dashPressed |-> FALSE, state |-> decodeInput(0),
   prevEncoded |-> 0, wire |-> << >>, quiet |-> 0, dashTicks |-> 0, press |-> "none",
   last |-> 0, ev |-> NoKeyEvent]

Heard(st) ==
  LET id == CHOOSE r \in RemoteIds : TRUE
      stepped == st.tick # tick /\ id \in DOMAIN remoteInputs /\ id \in DOMAIN players
      heard == IF inputMgr.on /\ stepped
               THEN [inputMgr EXCEPT !.quiet = Min(@ + 1, QuietTicks),
                                     !.dashTicks = IF remoteInputs[id].dash
                                                   THEN Min(@ + 1, MaxDashTicks) ELSE @]
               ELSE inputMgr
  IN IF st.tick # tick
     THEN [heard EXCEPT !.press = IF @ = "pending" THEN "consumed" ELSE "none"]
     ELSE heard

Install(st, op) ==
  /\ players' = st.players
  /\ flags' = st.flags
  /\ score' = st.score
  /\ powerUps' = st.powerUps
  /\ projectiles' = st.projectiles
  /\ gamePhase' = st.gamePhase
  /\ countdownTimer' = st.countdownTimer
  /\ winner' = st.winner
  /\ powerUpSpawnTimer' = st.powerUpSpawnTimer
  /\ tick' = st.tick
  /\ dashWatch' = IF op = "tick" THEN Watch(st) ELSE dashWatch
  /\ inputMgr' = IF op = "tick" THEN Heard(st) ELSE inputMgr
  /\ codec' = codec
  /\ UNCHANGED peerVars
  /\ log' = [op |-> op, dt |-> st.dt, checks |-> st.checks, picks |-> st.picks,
             hits |-> st.hits,
             respawned |-> st.respawned, collected |-> st.collected, dashed |-> st.dashed,
             waiting |-> st.waiting, spawn |-> st.spawn, taken |-> st.taken,
             gone |-> st.gone, was |-> tick, touches |-> st.touches]

\* recon: a client's world, a decoded snapshot handed to applyRemoteState and
\* the world after the call
NoRecon == [local |-> << >>, sent |-> << >>, remote |-> << >>, out |-> << >>, done |-> FALSE]

\* peers: per peer of the channel, its page, engine and role objects;
\* inbox: per peer, what the channel has yet to deliver to it;
\* peerLog: the last callback that ran on a peer
NoPeerLog == [op |-> "none", peer |-> NoId, arg |-> NoId, ok |-> TRUE]
\* events: the feed of notifications, the serial of the next one, the dt of
\* the last game-logic step and the entries it shifted and spliced out
\* lobby: a peer's Matchmaker, the members its presence channel lists, whether
\* onGameStart was called, and the last handler that ran
NewMatchmaker ==
  [lobbyChannel |-> FALSE, myId |-> "", members |-> {}, readyStates |-> [i \in {} |-> FALSE],
   countdownInterval |-> FALSE, countdownValue |-> 0, started |-> FALSE, op |-> "new"]

NoEvents == [feed |-> << >>, serial |-> 1, dt |-> 0, shifted |-> {}, spliced |-> {}]
PeersIdle ==
  /\ recon = NoRecon /\ peers = << >> /\ inbox = << >> /\ peerLog = NoPeerLog
  /\ events = NoEvents /\ lobby = NewMatchmaker

\* codec: a world handed to the snapshot codec and what came back
NoCodec == [W |-> << >>, D |-> << >>, done |-> FALSE]

\* page.tsx: the lobby's players are added, the host starts the countdown
EngineStart ==
  LET st == createInitialGameState
  IN /\ players = [id \in PlayerIds |-> createPlayer(id, LobbyTeam(id), LobbySpawnIndex(id))]
     /\ flags = st.flags
     /\ score = st.score
     /\ powerUps = st.powerUps
     /\ projectiles = st.projectiles
     /\ gamePhase = "countdown"
     /\ countdownTimer = COUNTDOWN_TIME
     /\ winner = st.winner
     /\ powerUpSpawnTimer = st.powerUpSpawnTimer
     /\ tick = st.tick
     /\ remoteInputs = << >>
     /\ dashWatch = [id \in PlayerIds |-> NoDash]
     /\ log = NoLog("init")

EngineInit == EngineStart /\ inputMgr = NoInput

Init ==
  /\ EngineInit
  /\ codec = NoCodec
  /\ PeersIdle

\* the variant below fires whatever the cooldown
createProjectileNoCooldown(st, id, dir) ==
  LET p == st.players[id]
  IN [st EXCEPT !.players[id].shootCooldown = SHOOT_COOLDOWN,
                !.projectiles = Append(@,
                   [ownerId |-> id, team |-> p.team,
                    x |-> p.x + dir.x * (PLAYER_RADIUS + BULLET_MUZZLE_GAP),
                    y |-> p.y + dir.y * (PLAYER_RADIUS + BULLET_MUZZLE_GAP),
                    vx |-> dir.x * BULLET_SPEED, vy |-> dir.y * BULLET_SPEED,
                    life |-> BULLET_LIFE])]

createProjectile(st, id, dir) ==
  LET p == st.players[id]
  IN IF p.shootCooldown > 0 THEN st
     ELSE [st EXCEPT !.players[id].shootCooldown = SHOOT_COOLDOWN,
                     !.projectiles = Append(@,
                        [ownerId |-> id, team |-> p.team,
                         x |-> p.x + dir.x * (PLAYER_RADIUS + BULLET_MUZZLE_GAP),
                         y |-> p.y + dir.y * (PLAYER_RADIUS + BULLET_MUZZLE_GAP),
                         vx |-> dir.x * BULLET_SPEED, vy |-> dir.y * BULLET_SPEED,
                         life |-> BULLET_LIFE])]

\* the variant below makes a player for an id that has an input and no player
StepPlayersMakesPlayer(ps, input, dt) ==
  [id \in DOMAIN ps \cup DOMAIN remoteInputs |->
     IF id \notin DOMAIN ps
     THEN updatePlayer(createPlayer(id, LobbyTeam(id), 0), remoteInputs[id], dt)
     ELSE IF id = LocalId THEN updatePlayer(ps[id], input, dt)
     ELSE IF id \in DOMAIN remoteInputs THEN updatePlayer(ps[id], remoteInputs[id], dt)
     ELSE ps[id]]

\* the players stepped by a frame: the local one from the local input, the
\* remote ones that have an entry in remoteInputs
StepPlayers(ps, input, dt) ==
  [id \in DOMAIN ps |->
     IF id = LocalId THEN updatePlayer(ps[id], input, dt)
     ELSE IF id \in DOMAIN remoteInputs THEN updatePlayer(ps[id], remoteInputs[id], dt)
     ELSE ps[id]]

\* the players whose updatePlayer began a dash: the dash timer was set and
\* the cooldown stands at DASH_COOLDOWN
BeganDash(before, after) ==
  {id \in DOMAIN after :
      after[id].dashCooldown = DASH_COOLDOWN /\ after[id].dashTimer # before[id].dashTimer}

\* the dead players whose respawn timer the player steps of a frame left as
\* it was
StillWaiting(before, after) ==
  {id \in DOMAIN after \cap DOMAIN before :
      before[id].state = "dead" /\ after[id].respawnTimer = before[id].respawnTimer}

\* update without the return in a phase other than playing
updateAnyPhase(st, dt, input, rnd) ==
  IF st.gamePhase = "countdown"
  THEN IF st.countdownTimer - dt <= 0
       THEN [st EXCEPT !.countdownTimer = @ - dt, !.gamePhase = "playing"]
       ELSE [st EXCEPT !.countdownTimer = @ - dt]
  ELSE LET ps == StepPlayers(st.players, input, dt)
       IN [updateGameLogic([st EXCEPT !.players = ps, !.dt = dt,
                                      !.dashed = BeganDash(st.players, ps),
                                      !.waiting = StillWaiting(st.players, ps)], rnd)
             EXCEPT !.tick = @ + 1]

\* GameEngine.update
update(st, dt, input, rnd) ==
  IF st.gamePhase = "countdown"
  THEN IF st.countdownTimer - dt <= 0
       THEN [st EXCEPT !.countdownTimer = @ - dt, !.gamePhase = "playing"]
       ELSE [st EXCEPT !.countdownTimer = @ - dt]
  ELSE IF st.gamePhase # "playing" THEN st
  ELSE LET ps == StepPlayers(st.players, input, dt)
       IN [updateGameLogic([st EXCEPT !.players = ps, !.dt = dt,
                                      !.dashed = BeganDash(st.players, ps),
                                      !.waiting = StillWaiting(st.players, ps)], rnd)
             EXCEPT !.tick = @ + 1]

\* the draws a frame consumes: a spawn index for each player to revive, a
\* type and a location if a power-up is due
Draws(types, locs) ==
  LET playing == gamePhase = "playing"
      revive(id) == playing /\ id \in DOMAIN players /\ players[id].state = "dead"
      due == playing /\ PowerUpSpawnDue(World)
      type0 == CHOOSE t \in types : TRUE
  IN {rnd \in [spawn : [PlayerIds -> SpawnDraws], type : types,
               loc : {POWERUP_LOCATIONS[i] : i \in locs}] :
        /\ \A id \in PlayerIds : revive(id) \/ rnd.spawn[id] = 0
        /\ due \/ rnd.type = type0}

\* one frame of the loop: GameEngine.update with the frame's input and draws
Frame(keys, dt, types, locs, maxTick, maxPowerUps) ==
  \E key \in keys, rnd \in Draws(types, locs) :
     LET st == update(World, dt, decodeInput(key), rnd)
     IN /\ tick < maxTick
        /\ Len(st.powerUps) <= maxPowerUps
        /\ Install(st, "tick")
        /\ UNCHANGED remoteInputs

\* HostManager: client-input
OnClientInput(keys) ==
  \E id \in RemoteIds, k \in keys :
     /\ remoteInputs' = (id :> decodeInput(k)) @@ remoteInputs
     /\ inputMgr' = IF inputMgr.on
                    THEN [inputMgr EXCEPT !.wire = Tail(@), !.quiet = 0,
                                          !.dashTicks = IF Bit(k, 16) THEN 0 ELSE @]
                    ELSE inputMgr
     /\ log' = NoLog("client-input")
     /\ UNCHANGED << players, flags, score, powerUps, projectiles, gamePhase,
                     countdownTimer, winner, powerUpSpawnTimer, tick, dashWatch, codec,
                     peerVars >>

\* HostManager: client-shoot, with at most cap projectiles in the world
OnClientShootUpTo(cap) ==
  \E id \in RemoteIds : \E dir \in ShootDirs(LobbyTeam(id)) :
     /\ Len(projectiles) < cap
     /\ IF id \in DOMAIN players /\ players[id].state # "dead"
        THEN Install(createProjectile(World, id, dir), "client-shoot")
        ELSE Install(World, "client-shoot")
     /\ UNCHANGED remoteInputs

OnClientShoot == OnClientShootUpTo(MaxProjectiles)

\* the onShoot handler of the local input
OnShootUpTo(cap) ==
  \E dir \in ShootDirs(LobbyTeam(LocalId)) :
     /\ Len(projectiles) < cap
     /\ IF /\ LocalId \in DOMAIN players
           /\ players[LocalId].state # "dead"
           /\ gamePhase = "playing"
           /\ ~(players[LocalId].shootCooldown > 0)
        THEN Install(createProjectile(World, LocalId, dir), "shoot")
        ELSE Install(World, "shoot")
     /\ UNCHANGED remoteInputs

OnShoot == OnShootUpTo(MaxProjectiles)

\* removePlayer without the drop of the leaver's flag
removePlayerKeepFlags(st, id) ==
  [st EXCEPT !.players = [i \in DOMAIN st.players \ {id} |-> st.players[i]]]

\* GameEngine.removePlayer, on pusher:member_removed
removePlayer(st, id) ==
  LET drop(f) == IF f.carrierId = id
                 THEN [f EXCEPT !.carrierId = NoId, !.dropTimer = REMOVED_CARRIER_DROP_TIME]
                 ELSE f
  IN [st EXCEPT !.flags = [t \in Teams |-> drop(st.flags[t])],
                !.players = [i \in DOMAIN st.players \ {id} |-> st.players[i]]]

OnMemberRemoved ==
  \E id \in RemoteIds :
     /\ id \in DOMAIN players
     /\ Install(removePlayer(World, id), "member_removed")
     /\ UNCHANGED remoteInputs

\* ------------------------------------------------------------------------
\* Spec: a short skirmish with every handler.
\* ------------------------------------------------------------------------
Tick == Frame(MoveKeys, FrameDt, TypeDraws, LocDraws, MaxTick, MaxPowerUps)
ClientInput == OnClientInput(MoveKeys)
ClientShoot == OnClientShoot
LocalShoot == OnShoot
RemovePlayer == OnMemberRemoved

Next == Tick \/ ClientInput \/ ClientShoot \/ LocalShoot \/ RemovePlayer

Spec == Init /\ [][Next]_vars

\* ------------------------------------------------------------------------
\* SpecStray: a world that refers to a player it does not hold.  Only the
\* local player is in the world; the blue flag, away from its base, names the
\* missing player as its carrier, a bullet of the missing player flies at the
\* local player, and the missing player's client keeps sending messages.
\* ------------------------------------------------------------------------
StrayId == CHOOSE id \in PlayerIds : id # LocalId
StrayFlagX == (MAP_COLS * TILE_SIZE) \div 2
StrayBulletStep == (BULLET_SPEED * BulletDt) \div 100

StrayInit ==
  LET st == createInitialGameState
      me == createPlayer(LocalId, LobbyTeam(LocalId), LobbySpawnIndex(LocalId))
  IN /\ players = (LocalId :> me)
     /\ flags = [st.flags EXCEPT ![me.team] = [@ EXCEPT !.x = StrayFlagX,
                                                         !.carrierId = StrayId]]
     /\ score = st.score
     /\ powerUps = st.powerUps
     /\ projectiles = << [ownerId |-> StrayId, team |-> LobbyTeam(StrayId),
                          x |-> me.x + 2 * StrayBulletStep, y |-> me.y,
                          vx |-> -BULLET_SPEED, vy |-> 0, life |-> BULLET_LIFE] >>
     /\ gamePhase = "playing"
     /\ countdownTimer = 0
     /\ winner = st.winner
     /\ powerUpSpawnTimer = st.powerUpSpawnTimer
     /\ tick = st.tick
     /\ remoteInputs = << >>
     /\ dashWatch = [id \in PlayerIds |-> NoDash]
     /\ log = NoLog("init")
     /\ inputMgr = NoInput
     /\ codec = NoCodec
     /\ PeersIdle

NextStray == Tick \/ ClientInput \/ ClientShoot \/ LocalShoot

SpecStray == StrayInit /\ [][NextStray]_vars

\* ------------------------------------------------------------------------
\* SpecVolley: updateProjectiles on a crowded spot.  Three players: the local
\* player and a team-mate who stands on it, next to it or away, and the
\* enemy, who stands on the same spot or at its own spawn.  Up to two bullets,
\* of either team, are one step short of the spot or of a point beside it.
\* ------------------------------------------------------------------------
VolleySpot == BLUE_SPAWNS[1]
VolleyOffsets == {0, PLAYER_RADIUS, 2 * TILE_SIZE}
VolleyLives == {BULLET_LIFE, BulletDt}
VolleyStates == {<<"alive", FALSE>>, <<"alive", TRUE>>, <<"carrying", FALSE>>,
                 <<"dead", FALSE>>}

volleyPlayer(id, x, y, life) ==
  [createPlayer(id, LobbyTeam(id), LobbySpawnIndex(id))
     EXCEPT !.x = x, !.y = y, !.state = life[1], !.shieldActive = life[2],
            !.shieldTimer = IF life[2] THEN SHIELD_DURATION ELSE 0,
            !.respawnTimer = IF life[1] = "dead" THEN RESPAWN_TIME ELSE 0]

volleyBullet(team, off, life) ==
  [ownerId |-> IF team = LobbyTeam(LocalId) THEN ThirdId ELSE StrayId, team |-> team,
   x |-> VolleySpot.x + StrayBulletStep, y |-> VolleySpot.y + off,
   vx |-> -BULLET_SPEED, vy |-> 0, life |-> life]

VolleyBullets ==
  {volleyBullet(team, off, life) :
     team \in Teams, off \in {0, 2 * TILE_SIZE}, life \in VolleyLives}

VolleyInit ==
  \E la \in VolleyStates, lc \in VolleyStates \ {<<"carrying", FALSE>>},
     off \in VolleyOffsets, near \in BOOLEAN, n \in 0..2 :
  \E bs \in [1..n -> VolleyBullets] :
    LET st == createInitialGameState
        enemy == IF near THEN VolleySpot ELSE RED_SPAWNS[1]
        carried == Other(LobbyTeam(LocalId))
    IN /\ players = (LocalId :> volleyPlayer(LocalId, VolleySpot.x, VolleySpot.y, la))
                     @@ (StrayId :> volleyPlayer(StrayId, enemy.x, enemy.y, <<"alive", FALSE>>))
                     @@ (ThirdId :> volleyPlayer(ThirdId, VolleySpot.x + off, VolleySpot.y, lc))
       /\ flags = IF la[1] = "carrying"
                  THEN [st.flags EXCEPT ![carried] = [@ EXCEPT !.x = VolleySpot.x,
                                                               !.y = VolleySpot.y,
                                                               !.carrierId = LocalId]]
                  ELSE st.flags
       /\ score = st.score
       /\ powerUps = st.powerUps
       /\ projectiles = bs
       /\ gamePhase = "playing"
       /\ countdownTimer = 0
       /\ winner = st.winner
       /\ powerUpSpawnTimer = st.powerUpSpawnTimer
       /\ tick = st.tick
       /\ remoteInputs = << >>
       /\ dashWatch = [id \in PlayerIds |-> NoDash]
       /\ log = NoLog("init")
       /\ inputMgr = NoInput
       /\ codec = NoCodec
       /\ PeersIdle

\* updateProjectiles, as GameEngine.update calls it in a frame
ProjectileStep ==
  /\ projectiles # << >>
  /\ Install(updateProjectiles(World), "projectiles")
  /\ UNCHANGED remoteInputs

NextVolley == ProjectileStep

SpecVolley == VolleyInit /\ [][NextVolley]_vars

\* ------------------------------------------------------------------------
\* SpecIdle: a remote player whose client has sent nothing yet.  An
\* InputManager sends only when its encoded input changes, so a client
\* whose user has pressed no key is silent.  The local player stands one
\* bullet step from the remote player's spawn and shoots; the remote client
\* may send its first input at any time.
\* ------------------------------------------------------------------------
IdleTicks == 8
IdleKeys == {0}
IdleSpot == Pt(RED_SPAWNS[1].x - StrayBulletStep - (PLAYER_RADIUS + BULLET_MUZZLE_GAP),
               RED_SPAWNS[1].y)

IdleInit ==
  LET st == createInitialGameState
  IN /\ players = [id \in PlayerIds |->
                     IF id = LocalId
                     THEN [createPlayer(id, LobbyTeam(id), LobbySpawnIndex(id))
                             EXCEPT !.x = IdleSpot.x, !.y = IdleSpot.y]
                     ELSE createPlayer(id, LobbyTeam(id), LobbySpawnIndex(id))]
     /\ flags = st.flags
     /\ score = st.score
     /\ powerUps = st.powerUps
     /\ projectiles = st.projectiles
     /\ gamePhase = "playing"
     /\ countdownTimer = 0
     /\ winner = st.winner
     /\ powerUpSpawnTimer = st.powerUpSpawnTimer
     /\ tick = st.tick
     /\ remoteInputs = << >>
     /\ dashWatch = [id \in PlayerIds |-> NoDash]
     /\ log = NoLog("init")
     /\ inputMgr = NoInput
     /\ codec = NoCodec
     /\ PeersIdle

IdleTick == Frame(IdleKeys, FrameDt, {"speed"}, LocDraws, IdleTicks, MaxPowerUps)
IdleShoot == OnShoot
IdleClientInput == OnClientInput(IdleKeys)

NextIdle == IdleTick \/ IdleShoot \/ IdleClientInput

SpecIdle == IdleInit /\ [][NextIdle]_vars

\* ------------------------------------------------------------------------
\* SpecPowerUps: the power-ups of a long stretch of play.  The local player
\* stands on the first anchor or at its spawn, the remote player stands or
\* lies dead on the first anchor; nobody moves, and every anchor can be drawn.
\* ------------------------------------------------------------------------
PowerTicks == 13
PowerUpCap == 5
AllLocs == 1..Len(POWERUP_LOCATIONS)
PowerSpot == POWERUP_LOCATIONS[1]

PowerInit ==
  LET st == createInitialGameState
      home(id) == createPlayer(id, LobbyTeam(id), LobbySpawnIndex(id))
      onSpot(id) == [home(id) EXCEPT !.x = PowerSpot.x, !.y = PowerSpot.y]
  IN /\ \E near \in BOOLEAN, dead \in BOOLEAN :
           players = [id \in PlayerIds |->
                        IF id = LocalId THEN IF near THEN onSpot(id) ELSE home(id)
                        ELSE IF dead
                             THEN [onSpot(id) EXCEPT !.state = "dead",
                                                     !.respawnTimer = RESPAWN_TIME]
                             ELSE onSpot(id)]
     /\ flags = st.flags
     /\ score = st.score
     /\ powerUps = st.powerUps
     /\ projectiles = st.projectiles
     /\ gamePhase = "playing"
     /\ countdownTimer = 0
     /\ winner = st.winner
     /\ powerUpSpawnTimer \in {LogicDt, st.powerUpSpawnTimer}
     /\ tick = st.tick
     /\ remoteInputs = [id \in RemoteIds |-> decodeInput(0)]
     /\ dashWatch = [id \in PlayerIds |-> NoDash]
     /\ log = NoLog("init")
     /\ inputMgr = NoInput
     /\ codec = NoCodec
     /\ PeersIdle

PowerTick == Frame({0}, FrameDt, {"speed"}, AllLocs, PowerTicks, PowerUpCap)

NextPowerUps == PowerTick

SpecPowerUps == PowerInit /\ [][NextPowerUps]_vars

\* ------------------------------------------------------------------------
\* SpecReturn: the moments after a flag carrier was shot.  The blue flag
\* lies where its red carrier died, or the red flag where its blue carrier
\* died; each player is alive or dead, on the flag or at its spawn; nobody
\* moves.
\* ------------------------------------------------------------------------
ReturnTicks == 4
DropSpot == IdleSpot

ReturnInit ==
  LET st == createInitialGameState
      home(id) == createPlayer(id, LobbyTeam(id), LobbySpawnIndex(id))
      put(id, near, dead) ==
        LET p == IF near THEN [home(id) EXCEPT !.x = DropSpot.x, !.y = DropSpot.y]
                 ELSE home(id)
        IN IF dead THEN [p EXCEPT !.state = "dead", !.respawnTimer = RESPAWN_TIME] ELSE p
  IN /\ \E near \in [PlayerIds -> BOOLEAN], dead \in [PlayerIds -> BOOLEAN] :
           players = [id \in PlayerIds |-> put(id, near[id], dead[id])]
     /\ \E team \in Teams :
           flags = [st.flags EXCEPT ![team] = [@ EXCEPT !.x = DropSpot.x, !.y = DropSpot.y,
                                                        !.carrierId = NoId,
                                                        !.dropTimer = FLAG_RETURN_TIME]]
     /\ score = st.score
     /\ powerUps = st.powerUps
     /\ projectiles = st.projectiles
     /\ gamePhase = "playing"
     /\ countdownTimer = 0
     /\ winner = st.winner
     /\ powerUpSpawnTimer = st.powerUpSpawnTimer
     /\ tick = st.tick
     /\ remoteInputs = [id \in RemoteIds |-> decodeInput(0)]
     /\ dashWatch = [id \in PlayerIds |-> NoDash]
     /\ log = NoLog("init")
     /\ inputMgr = NoInput
     /\ codec = NoCodec
     /\ PeersIdle

ReturnTick == Frame({0}, FrameDt, {"speed"}, LocDraws, ReturnTicks, MaxPowerUps)

NextReturn == ReturnTick

SpecReturn == ReturnInit /\ [][NextReturn]_vars

\* ------------------------------------------------------------------------
\* SpecShoot: shots of both players on the host, with frames short enough
\* for a shoot cooldown to last several of them.  The remote player has an
\* input stored, starts alive or dead, and may leave.  The local player
\* stands at its spawn, one bullet step in front of the remote player, or in
\* the last column with the edge of the map behind it.
\* ------------------------------------------------------------------------
ShootTicks == 4
ShootDt == 20
ShotCap == 2
ShootSpots == {BLUE_SPAWNS[1], IdleSpot, Pt(RED_SPAWNS[1].x, RED_SPAWNS[2].y)}

ShootInit ==
  LET st == createInitialGameState
      home(id) == createPlayer(id, LobbyTeam(id), LobbySpawnIndex(id))
  IN /\ \E dead \in BOOLEAN, spot \in ShootSpots :
           players = [id \in PlayerIds |->
                        IF id = LocalId THEN [home(id) EXCEPT !.x = spot.x, !.y = spot.y]
                        ELSE IF dead
                             THEN [home(id) EXCEPT !.state = "dead",
                                                   !.respawnTimer = RESPAWN_TIME]
                             ELSE home(id)]
     /\ flags = st.flags
     /\ score = st.score
     /\ powerUps = st.powerUps
     /\ projectiles = st.projectiles
     /\ gamePhase = "playing"
     /\ countdownTimer = 0
     /\ winner = st.winner
     /\ powerUpSpawnTimer = st.powerUpSpawnTimer
     /\ tick = st.tick
     /\ remoteInputs = [id \in RemoteIds |-> decodeInput(0)]
     /\ dashWatch = [id \in PlayerIds |-> NoDash]
     /\ log = NoLog("init")
     /\ inputMgr = NoInput
     /\ codec = NoCodec
     /\ PeersIdle

ShootFrame == Frame({0}, ShootDt, {"speed"}, LocDraws, ShootTicks, MaxPowerUps)
ShootClient == OnClientShootUpTo(ShotCap)
ShootLocal == OnShootUpTo(ShotCap)
ShootLeave == OnMemberRemoved

NextShoot == ShootFrame \/ ShootClient \/ ShootLocal \/ ShootLeave

SpecShoot == ShootInit /\ [][NextShoot]_vars

\* ------------------------------------------------------------------------
\* SpecMatch: a whole match.  Both players keep running; the power-up is
\* drawn at a location off their path; shots are fired and members leave
\* once the match is decided.
\* ------------------------------------------------------------------------
MatchTicks == 18
MatchKeys == {6, 10}
MatchLocDraws == {1}

MatchTick == Frame(MatchKeys, FrameDt, {"speed"}, MatchLocDraws, MatchTicks, MaxPowerUps)
MatchClientInput == OnClientInput(MatchKeys)
MatchClientShoot == gamePhase = "gameover" /\ OnClientShoot
MatchLocalShoot == gamePhase = "gameover" /\ OnShoot
MatchRemovePlayer == gamePhase = "gameover" /\ OnMemberRemoved

NextMatch ==
  MatchTick \/ MatchClientInput \/ MatchClientShoot \/ MatchLocalShoot \/ MatchRemovePlayer

SpecMatch == Init /\ [][NextMatch]_vars


\* ------------------------------------------------------------------------
\* SpecDash: updatePlayer on the local player, frame after frame, with the
\* dash key held and no direction pressed; now and then the player collects
\* a dash_reset power-up between two frames.  The frame time is the longest
\* the loop allows (MAX_FRAME_DT) or a shorter one.
\* ------------------------------------------------------------------------
MAX_FRAME_DT == 5
ShortDt == 3
MaxResets == 2
DashKey == 16

DashInit ==
  /\ Init
  /\ gamePhase = "countdown"

DashFrame ==
  \E dt \in {ShortDt, MAX_FRAME_DT} :
     LET ps == [players EXCEPT ![LocalId] = updatePlayer(@, decodeInput(DashKey), dt)]
         st == [World EXCEPT !.players = ps, !.dt = dt, !.dashed = BeganDash(players, ps),
                             !.waiting = StillWaiting(players, ps)]
     IN Install(st, "tick") /\ UNCHANGED remoteInputs

DashReset ==
  /\ dashWatch[LocalId].resets < MaxResets
  /\ players' = [players EXCEPT ![LocalId] = ApplyPowerUp(@, "dash_reset")]
  /\ dashWatch' = [dashWatch EXCEPT ![LocalId].reset = dashWatch[LocalId].since >= 0,
                                    ![LocalId].resets = @ + 1]
  /\ log' = NoLog("handler")
  /\ UNCHANGED << flags, score, powerUps, projectiles, gamePhase, countdownTimer, winner,
                  powerUpSpawnTimer, tick, remoteInputs, codec, peerVars, inputMgr >>

NextDash == DashFrame \/ DashReset

SpecDash == DashInit /\ [][NextDash]_vars

\* ------------------------------------------------------------------------
\* SpecInput: the input of a remote player, from its keyboard to the host's
\* simulation.  The client's InputManager turns key events into encoded
\* inputs and hands each change to the ClientManager, which sends it; the
\* host stores what arrives and steps the player from what it has stored.
\* The keys followed are the dash key and the key for left; key-down events
\* repeat while a key is held.
\* ------------------------------------------------------------------------
InputTicks == 6
MaxWire == 2
InputKeys == {" ", "a"}

\* InputManager.encode
encodeInput(state) ==
  (IF state.up THEN 1 ELSE 0) + (IF state.down THEN 2 ELSE 0)
  + (IF state.left THEN 4 ELSE 0) + (IF state.right THEN 8 ELSE 0)
  + (IF state.dash THEN 16 ELSE 0)

\* InputManager.update; a change of the encoded input goes to onInputChange
\* and from there onto the wire
\* the variant below hands every encoded input to onInputChange
inputUpdateAlways(im) ==
  LET newState == [up |-> "w" \in im.keys, down |-> "s" \in im.keys,
                   left |-> "a" \in im.keys, right |-> "d" \in im.keys,
                   dash |-> im.dashPressed]
      encoded == encodeInput(newState)
  IN [im EXCEPT !.state = [newState EXCEPT !.dash = FALSE],
                !.dashPressed = FALSE,
                !.prevEncoded = encoded,
                !.wire = Append(@, encoded),
                !.last = encoded,
                !.ev = [@ EXCEPT !.mask = encoded, !.before = im.last, !.sent = TRUE]]

inputUpdate(im) ==
  LET newState == [up |-> "w" \in im.keys, down |-> "s" \in im.keys,
                   left |-> "a" \in im.keys, right |-> "d" \in im.keys,
                   dash |-> im.dashPressed]
      encoded == encodeInput(newState)
      changed == encoded # im.prevEncoded
  IN [im EXCEPT !.state = [newState EXCEPT !.dash = FALSE],
                !.dashPressed = FALSE,
                !.prevEncoded = encoded,
                !.wire = IF changed THEN Append(@, encoded) ELSE @,
                !.last = IF changed THEN encoded ELSE @,
                !.ev = [@ EXCEPT !.mask = encoded, !.before = im.last, !.sent = changed]]

handleKeyDown(im, key) ==
  inputUpdate([im EXCEPT !.keys = @ \cup {key}, !.dashPressed = @ \/ key = " ",
                         !.ev = [@ EXCEPT !.kind = IF key \in im.keys THEN "repeat" ELSE "down",
                                          !.key = key]])

handleKeyUp(im, key) ==
  inputUpdate([im EXCEPT !.keys = @ \ {key},
                         !.dashPressed = IF key = " " THEN FALSE ELSE @,
                         !.ev = [@ EXCEPT !.kind = "up", !.key = key]])

InputInit ==
  /\ EngineStart
  /\ codec = NoCodec
  /\ PeersIdle
  /\ inputMgr = [NoInput EXCEPT !.on = TRUE]

hostVars == << players, flags, score, powerUps, projectiles, gamePhase, countdownTimer,
               winner, powerUpSpawnTimer, tick, remoteInputs, log, dashWatch >>

KeyDown ==
  \E key \in InputKeys :
     /\ Len(inputMgr.wire) < MaxWire
     /\ inputMgr' = handleKeyDown(inputMgr, key)
     /\ UNCHANGED << hostVars, codec, peerVars >>

KeyUp ==
  \E key \in inputMgr.keys :
     /\ Len(inputMgr.wire) < MaxWire
     /\ inputMgr' = handleKeyUp(inputMgr, key)
     /\ UNCHANGED << hostVars, codec, peerVars >>

DeliverInput == inputMgr.wire # << >> /\ OnClientInput({Head(inputMgr.wire)})

InputTick == Frame({0}, FrameDt, {"speed"}, MatchLocDraws, InputTicks, MaxPowerUps)

NextInput == KeyDown \/ KeyUp \/ DeliverInput \/ InputTick

SpecInput == InputInit /\ [][NextInput]_vars

\* ------------------------------------------------------------------------
\* SpecLocal: the engine's own InputManager and the local player.  Key
\* events and frames are tasks of one event loop: a handler runs to its end
\* before the next frame reads input.state.  On this peer nothing listens to
\* onInputChange.  inputMgr.press follows a press of the dash key made while
\* the local player could dash: pending until the next simulation tick, then
\* consumed.
\* ------------------------------------------------------------------------
LocalTicks == 6

CanDash(p) == p.state = "alive" /\ ~p.isDashing /\ p.dashCooldown <= 0

LocalKeyDown ==
  \E key \in InputKeys :
     /\ inputMgr' = [handleKeyDown(inputMgr, key) EXCEPT
                       !.wire = << >>,
                       !.press = IF /\ key = " " /\ key \notin inputMgr.keys
                                    /\ gamePhase = "playing" /\ CanDash(players[LocalId])
                                 THEN "pending" ELSE @]
     /\ UNCHANGED << hostVars, codec, peerVars >>

LocalKeyUp ==
  \E key \in inputMgr.keys :
     /\ inputMgr' = [handleKeyUp(inputMgr, key) EXCEPT !.wire = << >>]
     /\ UNCHANGED << hostVars, codec, peerVars >>

\* one frame of the loop: GameEngine.update reads input.state
LocalFrame ==
  \E rnd \in Draws({"speed"}, LocDraws) :
     LET st == update(World, FrameDt, inputMgr.state, rnd)
     IN /\ tick < LocalTicks
        /\ Len(st.powerUps) <= MaxPowerUps
        /\ Install(st, "tick")
        /\ UNCHANGED remoteInputs

NextLocal == LocalKeyDown \/ LocalKeyUp \/ LocalFrame

SpecLocal == Init /\ [][NextLocal]_vars

\* ------------------------------------------------------------------------
\* The snapshot codec (src/unnamed/part_003; src/src/network/messages.ts is
\* the same codec with whole-pixel positions and no angles).  The worlds it
\* is applied to are those of src/unnamed/part_007: a player has x, z, yaw
\* and pitch, a height y that is 0 and a health that is 100.
\* Every number of such a world is kept in units of 1/Fine, so that 1.25 is
\* (5 * Fine) \div 4.  Fine is a multiple of every scale factor of the wire
\* format, which makes division by a scale factor exact.
\* ------------------------------------------------------------------------
POS_SCALE == 100
ANGLE_SCALE == 1000
COOLDOWN_SCALE == 100
VELOCITY_SCALE == 10
TIMER_SCALE == 10
\* fine steps per step of the finest wire scale
Sub == 4
Fine == ANGLE_SCALE * Sub

\* Math.round(n / d) for d > 0: halves go up
Round(n, d) == (2 * n + d) \div (2 * d)
\* Math.round(v * scale) of a number v, and wire / scale
toWire(v, scale) == Round(v * scale, Fine)
fromWire(w, scale) == (w * Fine) \div scale

stateBits(state) == IF state = "alive" THEN 0 ELSE IF state = "dead" THEN 1 ELSE 2
teamBit(team) == IF team = "blue" THEN 0 ELSE 1
flagBits(p) ==
  (IF p.isDashing THEN 1 ELSE 0) + (IF p.shieldActive THEN 2 ELSE 0)
  + (IF p.speedBoostActive THEN 4 ELSE 0)
typeIndex(type) == IF type = "speed" THEN 0 ELSE IF type = "shield" THEN 1 ELSE 2
typeMap == <<"speed", "shield", "dash_reset">>
phaseCode(phase) ==
  IF phase = "waiting" THEN "w" ELSE IF phase = "countdown" THEN "c"
  ELSE IF phase = "playing" THEN "p" ELSE "g"
phaseOfCode(ph) ==
  IF ph = "w" THEN "waiting" ELSE IF ph = "c" THEN "countdown"
  ELSE IF ph = "p" THEN "playing" ELSE "gameover"

encodePlayer(p) ==
  << toWire(p.x, POS_SCALE), toWire(p.z, POS_SCALE), toWire(p.yaw, ANGLE_SCALE),
     toWire(p.pitch, ANGLE_SCALE), stateBits(p.state), teamBit(p.team), flagBits(p),
     toWire(p.shootCooldown, COOLDOWN_SCALE) >>

encodeProjectile(b) ==
  << toWire(b.x, POS_SCALE), toWire(b.z, POS_SCALE), toWire(b.y, POS_SCALE),
     toWire(b.vx, VELOCITY_SCALE), toWire(b.vz, VELOCITY_SCALE),
     toWire(b.vy, VELOCITY_SCALE), teamBit(b.team) >>

encodeFlag(f) ==
  << toWire(f.x, POS_SCALE), toWire(f.z, POS_SCALE), f.carrierId,
     toWire(f.dropTimer, TIMER_SCALE) >>

encodePowerUp(pu) ==
  << typeIndex(pu.type), toWire(pu.x, POS_SCALE), toWire(pu.z, POS_SCALE), pu.id >>

IsActive(pu) == pu.active

encodeGameState(state) ==
  LET active == SelectSeq(state.powerUps, IsActive)
  IN [p |-> [id \in DOMAIN state.players |-> encodePlayer(state.players[id])],
      f |-> << encodeFlag(state.flags.blue), encodeFlag(state.flags.red) >>,
      s |-> << state.score.blue, state.score.red >>,
      pw |-> [i \in 1..Len(active) |-> encodePowerUp(active[i])],
      b |-> [i \in 1..Len(state.projectiles) |-> encodeProjectile(state.projectiles[i])],
      ph |-> phaseCode(state.gamePhase),
      ct |-> toWire(state.countdownTimer, TIMER_SCALE),
      w |-> state.winner,
      t |-> state.tick]

\* a player of the snapshot: what the wire carries, and for the rest the
\* player of that id in `existing` (old), or a default if there is none.
\* An id is shorter than eight characters, so id.substring(0, 8) is the id.
\* id.substring(0, 8)
First8(id) == IF Len(id) <= 8 THEN id ELSE SubSeq(id, 1, 8)

playerOf(id, data, known, old) ==
  [id |-> id,
   name |-> IF known /\ old.name # "" THEN old.name ELSE First8(id),
   team |-> IF data[6] = 0 THEN "blue" ELSE "red",
   x |-> fromWire(data[1], POS_SCALE),
   y |-> 0,
   z |-> fromWire(data[2], POS_SCALE),
   vx |-> IF known THEN old.vx ELSE 0,
   vy |-> 0,
   vz |-> IF known THEN old.vz ELSE 0,
   yaw |-> fromWire(data[3], ANGLE_SCALE),
   pitch |-> fromWire(data[4], ANGLE_SCALE),
   state |-> IF data[5] = 0 THEN "alive" ELSE IF data[5] = 1 THEN "dead" ELSE "carrying",
   health |-> 100,
   dashCooldown |-> IF known THEN old.dashCooldown ELSE 0,
   isDashing |-> Bit(data[7], 1),
   dashTimer |-> IF known THEN old.dashTimer ELSE 0,
   respawnTimer |-> IF known THEN old.respawnTimer ELSE 0,
   shieldActive |-> Bit(data[7], 2),
   shieldTimer |-> IF known THEN old.shieldTimer ELSE 0,
   speedBoostActive |-> Bit(data[7], 4),
   speedBoostTimer |-> IF known THEN old.speedBoostTimer ELSE 0,
   shootCooldown |-> fromWire(data[8], COOLDOWN_SCALE),
   flashTimer |-> IF known THEN old.flashTimer ELSE 0]

\* the player of a snapshot overwritten, not merged
decodePlayerNoMerge(id, data, existing) == playerOf(id, data, FALSE, << >>)

decodePlayer(id, data, existing) ==
  IF id \in DOMAIN existing.players
  THEN playerOf(id, data, TRUE, existing.players[id])
  ELSE playerOf(id, data, FALSE, << >>)

\* `net-${i}`, i counting from 0
netId(i) == "net-" \o ToString(i - 1)

decodeProjectile(b, i) ==
  [id |-> netId(i),
   ownerId |-> "",
   team |-> IF b[7] = 0 THEN "blue" ELSE "red",
   x |-> fromWire(b[1], POS_SCALE),
   z |-> fromWire(b[2], POS_SCALE),
   y |-> fromWire(b[3], POS_SCALE),
   vx |-> fromWire(b[4], VELOCITY_SCALE),
   vz |-> fromWire(b[5], VELOCITY_SCALE),
   vy |-> fromWire(b[6], VELOCITY_SCALE),
   life |-> Fine]

decodeFlag(f, old) ==
  [old EXCEPT !.x = fromWire(f[1], POS_SCALE),
              !.z = fromWire(f[2], POS_SCALE),
              !.carrierId = f[3],
              !.dropTimer = fromWire(f[4], TIMER_SCALE)]

decodePowerUp(pw) ==
  [id |-> pw[4],
   type |-> typeMap[pw[1] + 1],
   x |-> fromWire(pw[2], POS_SCALE),
   z |-> fromWire(pw[3], POS_SCALE),
   animTimer |-> 0,
   active |-> TRUE]

\* the variant below keeps the players the snapshot does not list
decodeGameStateKeepPlayers(compact, existing) ==
  [existing EXCEPT
     !.players = [id \in DOMAIN compact.p |-> decodePlayer(id, compact.p[id], existing)] @@ @,
     !.flags = [blue |-> decodeFlag(compact.f[1], existing.flags.blue),
                red |-> decodeFlag(compact.f[2], existing.flags.red)],
     !.score = [blue |-> compact.s[1], red |-> compact.s[2]],
     !.powerUps = [i \in 1..Len(compact.pw) |-> decodePowerUp(compact.pw[i])],
     !.projectiles = [i \in 1..Len(compact.b) |-> decodeProjectile(compact.b[i], i)],
     !.gamePhase = phaseOfCode(compact.ph),
     !.countdownTimer = fromWire(compact.ct, TIMER_SCALE),
     !.winner = compact.w,
     !.tick = compact.t]

decodeGameState(compact, existing) ==
  [existing EXCEPT
     !.players = [id \in DOMAIN compact.p |-> decodePlayer(id, compact.p[id], existing)],
     !.flags = [blue |-> decodeFlag(compact.f[1], existing.flags.blue),
                red |-> decodeFlag(compact.f[2], existing.flags.red)],
     !.score = [blue |-> compact.s[1], red |-> compact.s[2]],
     !.powerUps = [i \in 1..Len(compact.pw) |-> decodePowerUp(compact.pw[i])],
     !.projectiles = [i \in 1..Len(compact.b) |-> decodeProjectile(compact.b[i], i)],
     !.gamePhase = phaseOfCode(compact.ph),
     !.countdownTimer = fromWire(compact.ct, TIMER_SCALE),
     !.winner = compact.w,
     !.tick = compact.t]

\* ------------------------------------------------------------------------
\* SpecCodec: a world is drawn and sent through the codec, with itself as
\* the world the snapshot is merged into.  The worlds differ in the local
\* player's position, view angle and velocity, in where the red flag is, in
\* whether the other player is dead and has shot, in the bullets and the
\* power-ups on the map and in the phase of the match; their numbers lie on
\* the wire's grid, just off it, and halfway between two of its steps.
\* ------------------------------------------------------------------------
Half(scale) == Fine \div (2 * scale)

CodecXs == {12 * Fine, 12 * Fine + 1, 12 * Fine + Half(POS_SCALE)}
CodecYaws == {0, -(Fine \div 2) - 1, 3 * Fine + Half(ANGLE_SCALE)}
CodecSpeeds == {0, 6 * Fine + Fine \div 4}
CodecCooldowns == {0, Fine \div 3}
CodecFlagCases == {"home", "carried", "dropped"}
CodecPhases == {"countdown", "playing", "gameover"}
CodecLives == {(3 * Fine) \div 2, Fine \div 3}

codecPlayer(id, x, yaw, v, state, cooldown) ==
  [id |-> id, name |-> IF id = LocalId THEN "Ann" ELSE "Bob", team |-> LobbyTeam(id),
   x |-> x, y |-> 0, z |-> 5 * Fine, vx |-> v, vy |-> 0, vz |-> -v,
   yaw |-> yaw, pitch |-> -Half(POS_SCALE) - 1,
   state |-> state, health |-> 100,
   dashCooldown |-> IF v = 0 THEN 0 ELSE 2 * Fine + 1, isDashing |-> FALSE, dashTimer |-> 0,
   respawnTimer |-> IF state = "dead" THEN Fine + 1 ELSE 0,
   shieldActive |-> FALSE, shieldTimer |-> 0,
   speedBoostActive |-> id # LocalId, speedBoostTimer |-> IF id # LocalId THEN 2 * Fine + 1 ELSE 0,
   shootCooldown |-> cooldown, flashTimer |-> IF cooldown = 0 THEN 0 ELSE Fine \div 8]

codecFlag(team, x, z, carrierId, dropTimer) ==
  [team |-> team, x |-> x, y |-> 0, z |-> z,
   baseX |-> IF team = "blue" THEN 6 * Fine ELSE 33 * Fine, baseZ |-> 12 * Fine,
   carrierId |-> carrierId, dropTimer |-> dropTimer]

codecBullet(life) ==
  [id |-> "b-1", ownerId |-> LocalId, team |-> LobbyTeam(LocalId),
   x |-> 13 * Fine + 1, y |-> (3 * Fine) \div 2, z |-> 5 * Fine,
   vx |-> 18 * Fine + (3 * Fine) \div 4, vy |-> 0, vz |-> -(Fine \div 3), life |-> life]

codecPowerUp(id, type, animTimer, active) ==
  [id |-> id, type |-> type, x |-> 20 * Fine, z |-> 12 * Fine + 1,
   animTimer |-> animTimer, active |-> active]

CodecProjectiles == {<< >>} \cup {<< codecBullet(life) >> : life \in CodecLives}
CodecPowerUps ==
  { << >>,
    << codecPowerUp("pu-1", "shield", Fine \div 4, TRUE) >>,
    << codecPowerUp("pu-1", "speed", 0, FALSE) >>,
    << codecPowerUp("pu-1", "speed", 0, FALSE), codecPowerUp("pu-2", "dash_reset", 0, TRUE) >> }

codecWorld(x, yaw, v, flagCase, otherDead, cooldown, bullets, pus, phase) ==
  LET other == CHOOSE id \in PlayerIds : id # LocalId
      base == [blue |-> codecFlag("blue", 6 * Fine, 12 * Fine, NoId, 0),
               red |-> codecFlag("red", 33 * Fine, 12 * Fine, NoId, 0)]
  IN [players |->
        (LocalId :> codecPlayer(LocalId, x, yaw, v,
                                IF flagCase = "carried" THEN "carrying" ELSE "alive", 0))
        @@ (other :> codecPlayer(other, 30 * Fine, 3 * Fine, 0,
                                 IF otherDead THEN "dead" ELSE "alive", cooldown)),
      flags |->
        [base EXCEPT !.red =
           IF flagCase = "carried" THEN codecFlag("red", x, 5 * Fine, LocalId, 0)
           ELSE IF flagCase = "dropped"
                THEN codecFlag("red", 20 * Fine + 1, 5 * Fine, NoId, 29 * Fine + Fine \div 3)
                ELSE @],
      score |-> [blue |-> IF phase = "gameover" THEN SCORE_TO_WIN
                          ELSE IF phase = "playing" THEN 1 ELSE 0,
                 red |-> 0],
      powerUps |-> pus,
      projectiles |-> bullets,
      events |-> << >>,
      gamePhase |-> phase,
      countdownTimer |-> IF phase = "countdown" THEN 2 * Fine + Fine \div 3 ELSE 0,
      winner |-> IF phase = "gameover" THEN "blue" ELSE NoId,
      tick |-> 42,
      powerUpSpawnTimer |-> 7 * Fine + 1]

\* during the countdown nobody has moved, shot, died or taken a flag, and no
\* power-up has been spawned
CodecDraws ==
  { d \in CodecXs \X CodecYaws \X CodecSpeeds \X CodecFlagCases \X BOOLEAN
          \X CodecCooldowns \X CodecProjectiles \X CodecPowerUps \X CodecPhases :
      d[9] = "countdown" =>
        /\ d[3] = 0 /\ d[4] = "home" /\ ~d[5] /\ d[6] = 0
        /\ d[7] = << >> /\ d[8] = << >> }

CodecWorlds ==
  { codecWorld(d[1], d[2], d[3], d[4], d[5], d[6], d[7], d[8], d[9]) : d \in CodecDraws }

CodecInit ==
  /\ EngineInit
  /\ PeersIdle
  /\ codec \in {[W |-> w, D |-> << >>, done |-> FALSE] : w \in CodecWorlds}

\* ClientManager: a snapshot of the world arrives and is merged into it
RoundTrip ==
  /\ ~codec.done
  /\ codec' = [codec EXCEPT !.D = decodeGameState(encodeGameState(codec.W), codec.W),
                            !.done = TRUE]
  /\ UNCHANGED << engineVars, peerVars >>

NextCodec == RoundTrip

SpecCodec == CodecInit /\ [][NextCodec]_vars

\* ------------------------------------------------------------------------
\* The client's reconciliation (GameEngine.applyRemoteState, 3D build).  The
\* decoded snapshot is assigned over the world; the local player is then put
\* 0.3 of the way from where the client had it to where the host has it when
\* the two places are less than 1.5 apart in the plane, left on the host's
\* place otherwise, and keeps the camera's view angles.  Positions are in
\* units of 1/Fine; on the wire's grid of 0.01 the 0.3 of a difference is a
\* whole number of units.
\* ------------------------------------------------------------------------
SnapDistance == (3 * Fine) \div 2
Correction(d) == (3 * d) \div 10
WithinSnap(dx, dz) == 4 * (dx * dx + dz * dz) < 9 * Fine * Fine

assign(state, remoteState) ==
  [f \in DOMAIN state \cup DOMAIN remoteState |->
     IF f \in DOMAIN remoteState THEN remoteState[f] ELSE state[f]]

\* the variant below leaves the local player where the host has it
applyRemoteStateSnap(state, remoteState, camera) ==
  LET merged == assign(state, remoteState)
  IN IF LocalId \in DOMAIN state.players /\ LocalId \in DOMAIN merged.players
     THEN [merged EXCEPT !.players[LocalId].yaw = camera.yaw,
                         !.players[LocalId].pitch = camera.pitch]
     ELSE merged

applyRemoteState(state, remoteState, camera) ==
  LET merged == assign(state, remoteState)
  IN IF LocalId \in DOMAIN state.players /\ LocalId \in DOMAIN merged.players
     THEN LET localPlayer == state.players[LocalId]
              remote == merged.players[LocalId]
              dx == remote.x - localPlayer.x
              dz == remote.z - localPlayer.z
              near == WithinSnap(dx, dz)
          IN [merged EXCEPT
                !.players[LocalId].x = IF near THEN localPlayer.x + Correction(dx) ELSE @,
                !.players[LocalId].z = IF near THEN localPlayer.z + Correction(dz) ELSE @,
                !.players[LocalId].yaw = camera.yaw,
                !.players[LocalId].pitch = camera.pitch]
     ELSE merged

\* ------------------------------------------------------------------------
\* SpecReconcile: a client's world and a host's world are drawn, the host's
\* snapshot goes through the codec and the client applies it.  The host has
\* the local player at the client's place or off it by less than, exactly
\* and more than the snap distance; either world may lack the local player.
\* The host's red flag is at its base or lies dropped on the map.
\* ------------------------------------------------------------------------
ReconXs == {12 * Fine, 12 * Fine + Fine \div POS_SCALE}
ReconDxs == {0, Fine, -(Fine \div 2), (9 * Fine) \div 10, (3 * Fine) \div 2, 2 * Fine}
ReconDzs == {0, Fine, -((6 * Fine) \div 5)}
ReconCases == {"both", "hostLacks", "clientLacks"}
ReconCamera == [yaw |-> Fine \div 4, pitch |-> -(Fine \div 8)]

\* the red flag of the host: at its base, dropped a moment ago, or dropped
\* with 0.04 s left on its drop timer
ReconFlagCases == {"home", "dropped", "expiring"}

reconWorld(x, z, present, flagCase) ==
  LET w == codecWorld(x, 0, 0, IF flagCase = "home" THEN "home" ELSE "dropped",
                      FALSE, 0, << >>, << >>, "playing")
      ps == [w.players EXCEPT ![LocalId].z = z]
  IN [w EXCEPT !.players =
                 IF present THEN ps ELSE [id \in DOMAIN ps \ {LocalId} |-> ps[id]],
               !.flags.red.dropTimer = IF flagCase = "expiring" THEN Fine \div 25 ELSE @]

\* a player who joined the host and whom the client has not seen yet
GuestId == "guest-0042"
withGuest(w, guest) ==
  IF guest
  THEN [w EXCEPT !.players = @ @@ (GuestId :> codecPlayer(GuestId, 20 * Fine, 0, 0, "alive", 0))]
  ELSE w

\* the client's world: its own event feed and power-up spawn timer
reconLocal(w) ==
  [w EXCEPT !.events = << "joined" >>, !.powerUpSpawnTimer = 3 * Fine + 1]

ReconInit ==
  /\ EngineInit
  /\ codec = NoCodec
  /\ peers = << >> /\ inbox = << >> /\ peerLog = NoPeerLog /\ events = NoEvents /\ lobby = NewMatchmaker
  /\ \E x \in ReconXs, dx \in ReconDxs, dz \in ReconDzs, c \in ReconCases,
        fc \in ReconFlagCases, guest \in BOOLEAN :
        recon = [local |-> reconLocal(reconWorld(x, 5 * Fine, c # "clientLacks", "home")),
                 sent |-> << >>,
                 remote |-> withGuest(reconWorld(x + dx, 5 * Fine + dz, c # "hostLacks", fc),
                                      guest),
                 out |-> << >>, done |-> FALSE]

\* ClientManager: the host's snapshot arrives, is decoded against the
\* client's world and applied to it
OnClientState ==
  /\ ~recon.done
  /\ LET decoded == decodeGameState(encodeGameState(recon.remote), recon.local)
     IN recon' = [recon EXCEPT !.sent = encodeGameState(recon.remote),
                               !.remote = decoded,
                               !.out = applyRemoteState(recon.local, decoded, ReconCamera),
                               !.done = TRUE]
  /\ UNCHANGED << engineVars, codec, peers, inbox, peerLog, events, lobby >>

NextReconcile == OnClientState

SpecReconcile == ReconInit /\ [][NextReconcile]_vars

\* ------------------------------------------------------------------------
\* The peers of a match (page.tsx, HostManager, ClientManager).  Every peer
\* runs the page's game setup on the same lobby list: it adds the lobby's
\* players to its engine, becomes host when its id sorts first and client
\* otherwise, and binds the member_removed handler.  Of a peer's world the
\* model keeps the ids of its players, its tick, the ids it holds a remote
\* input of and whether a remote shot made a projectile.
\* ------------------------------------------------------------------------
MaxPeerTicks == 1
MaxInFlight == 1
MaxDepartures == 2

PeerOrder == << "a", "b", "c" >>
PeerIds == {PeerOrder[i] : i \in 1..Len(PeerOrder)}

\* ids.sort()[0]
sortedFirst(ids) ==
  IF ids = {} THEN NoId
  ELSE CHOOSE id \in ids : \A other \in ids : IndexOf(PeerOrder, id) <= IndexOf(PeerOrder, other)

HostBindings == {"client-input", "client-shoot"}
ClientBindings == {"client-state"}

startPeer(id) ==
  LET isHost == sortedFirst(PeerIds) = id
  IN [present |-> TRUE, running |-> TRUE, ids |-> PeerIds, tick |-> 0,
      hostManagerRef |-> isHost, clientManagerRef |-> ~isHost,
      broadcastInterval |-> isHost, onInputChange |-> ~isHost,
      bound |-> IF isHost THEN HostBindings ELSE ClientBindings,
      destroyed |-> {}, remoteInputs |-> {}, remoteShot |-> FALSE]

NoInbox == [removed |-> << >>, states |-> {}, msgs |-> {}]

PeersInit ==
  /\ EngineInit
  /\ codec = NoCodec
  /\ recon = NoRecon
  /\ peers = [id \in PeerIds |-> startPeer(id)]
  /\ inbox = [id \in PeerIds |-> NoInbox]
  /\ peerLog = NoPeerLog /\ events = NoEvents /\ lobby = NewMatchmaker

Present == {id \in PeerIds : peers[id].present}

\* the frames run so far and the messages the channel holds, over all peers
RECURSIVE TotalOf(_, _)
TotalOf(count(_), i) == IF i = 0 THEN 0 ELSE count(PeerOrder[i]) + TotalOf(count, i - 1)
TickOf(id) == peers[id].tick
HeldFor(id) == Cardinality(inbox[id].states) + Cardinality(inbox[id].msgs)
Ticks == TotalOf(TickOf, Len(PeerOrder))
InFlight == TotalOf(HeldFor, Len(PeerOrder))
Hosts == {id \in Present : peers[id].hostManagerRef}

\* channel.trigger: a client event reaches every other subscriber
trigger(from, field, m) ==
  [q \in PeerIds |->
     IF q # from /\ peers[q].present
     THEN [inbox[q] EXCEPT ![field] = @ \cup {m}]
     ELSE inbox[q]]

\* ClientManager.destroy, HostManager.destroy
destroyClient(p) == [p EXCEPT !.onInputChange = FALSE, !.destroyed = @ \cup {"client"}]
destroyHost(p) == [p EXCEPT !.broadcastInterval = FALSE, !.destroyed = @ \cup {"host"}]

\* the engine's frame loop
PeerTick(id) ==
  /\ peers[id].present /\ peers[id].running
  /\ Ticks < MaxPeerTicks
  /\ peers' = [peers EXCEPT ![id].tick = @ + 1]
  /\ peerLog' = [op |-> "tick", peer |-> id, arg |-> NoId, ok |-> TRUE]
  /\ UNCHANGED inbox

\* the variant below lets the exception of a failed send end the interval
BroadcastUncaught(id, ok) ==
  /\ peers[id].present /\ peers[id].broadcastInterval
  /\ InFlight < MaxInFlight
  /\ peers' = [peers EXCEPT ![id].broadcastInterval = ok]
  /\ inbox' = IF ok THEN trigger(id, "states", [ids |-> peers[id].ids, tick |-> peers[id].tick])
              ELSE inbox
  /\ peerLog' = [op |-> "broadcast", peer |-> id, arg |-> NoId, ok |-> ok]

\* HostManager.startBroadcasting: the interval's callback; ok: the send did
\* not throw
Broadcast(id, ok) ==
  /\ peers[id].present /\ peers[id].broadcastInterval
  /\ InFlight < MaxInFlight
  /\ UNCHANGED peers
  /\ inbox' = IF ok THEN trigger(id, "states", [ids |-> peers[id].ids, tick |-> peers[id].tick])
              ELSE inbox
  /\ peerLog' = [op |-> "broadcast", peer |-> id, arg |-> NoId, ok |-> ok]

\* ClientManager: engine.onInputChange, engine.onShootEvent
SendInput(id, kind, ok) ==
  /\ peers[id].present /\ peers[id].running /\ peers[id].onInputChange
  /\ InFlight < MaxInFlight
  /\ UNCHANGED peers
  /\ inbox' = IF ok THEN trigger(id, "msgs", [kind |-> kind, id |-> id]) ELSE inbox
  /\ peerLog' = [op |-> kind, peer |-> id, arg |-> NoId, ok |-> ok]

\* the channel delivers a snapshot: the client-state binding, when there is
\* one, decodes it and applies it
DeliverState(id) ==
  /\ peers[id].present
  /\ \E s \in inbox[id].states :
        /\ inbox' = [inbox EXCEPT ![id].states = @ \ {s}]
        /\ peers' = IF "client-state" \in peers[id].bound
                    THEN [peers EXCEPT ![id].ids = s.ids, ![id].tick = s.tick]
                    ELSE peers
        /\ peerLog' = [op |-> "client-state", peer |-> id, arg |-> NoId,
                       ok |-> "client-state" \in peers[id].bound]

\* the channel delivers a client's input or shot: the host's binding, when
\* there is one, stores the input or creates the projectile
DeliverMsg(id) ==
  /\ peers[id].present
  /\ \E m \in inbox[id].msgs :
        /\ inbox' = [inbox EXCEPT ![id].msgs = @ \ {m}]
        /\ peers' =
             IF m.kind \notin peers[id].bound THEN peers
             ELSE IF m.kind = "client-input"
                  THEN [peers EXCEPT ![id].remoteInputs = @ \cup {m.id}]
                  ELSE IF m.id \in peers[id].ids
                       THEN [peers EXCEPT ![id].remoteShot = TRUE]
                       ELSE peers
        /\ peerLog' = [op |-> "deliver-" \o m.kind, peer |-> id, arg |-> m.id,
                       ok |-> m.kind \in peers[id].bound]

\* the page's cleanup on unmount
Unmount(id) ==
  /\ peers[id].present /\ peers[id].running
  /\ LET p0 == [peers[id] EXCEPT !.running = FALSE]
         p1 == IF p0.hostManagerRef THEN destroyHost(p0) ELSE p0
         p2 == IF p1.clientManagerRef THEN destroyClient(p1) ELSE p1
     IN peers' = [peers EXCEPT ![id] = p2]
  /\ peerLog' = [op |-> "unmount", peer |-> id, arg |-> NoId, ok |-> TRUE]
  /\ UNCHANGED inbox

\* a peer leaves the channel; every other subscriber is sent member_removed
Depart(id) ==
  /\ peers[id].present
  /\ Cardinality(PeerIds \ Present) < MaxDepartures
  /\ peers' = [peers EXCEPT ![id].present = FALSE, ![id].running = FALSE,
                            ![id].broadcastInterval = FALSE, ![id].onInputChange = FALSE]
  /\ inbox' = [q \in PeerIds |->
                 IF q = id THEN NoInbox
                 ELSE IF peers[q].present
                      THEN [inbox[q] EXCEPT !.removed = Append(@, id)]
                      ELSE inbox[q]]
  /\ peerLog' = [op |-> "depart", peer |-> id, arg |-> NoId, ok |-> TRUE]

\* the variant below keeps the client-role object
promoteKeepClient(p) ==
  [p EXCEPT !.hostManagerRef = TRUE, !.bound = @ \cup HostBindings,
            !.broadcastInterval = TRUE]

\* new HostManager(channel, engine); startBroadcasting()
promote(p) ==
  LET p1 == IF p.clientManagerRef THEN destroyClient(p) ELSE p
  IN [p1 EXCEPT !.clientManagerRef = FALSE, !.hostManagerRef = TRUE,
                !.bound = @ \cup HostBindings, !.broadcastInterval = TRUE]

\* the variant below does not look at the remaining ids
shouldPromoteAnyId(id, remainingIds) == ~peers[id].hostManagerRef

shouldPromote(id, remainingIds) ==
  sortedFirst(remainingIds) = id /\ ~peers[id].hostManagerRef

\* the page's pusher:member_removed handler
MemberRemoved(id) ==
  /\ peers[id].present
  /\ inbox[id].removed # << >>
  /\ LET member == Head(inbox[id].removed)
         removedPlayer == [peers[id] EXCEPT !.ids = @ \ {member}]
     IN /\ peers' = [peers EXCEPT ![id] = IF shouldPromote(id, removedPlayer.ids)
                                           THEN promote(removedPlayer)
                                           ELSE removedPlayer]
        /\ peerLog' = [op |-> "member_removed", peer |-> id, arg |-> member, ok |-> TRUE]
  /\ inbox' = [inbox EXCEPT ![id].removed = Tail(@)]

PeerEngineTick == \E id \in PeerIds : PeerTick(id) /\ UNCHANGED << engineVars, codec, recon, events, lobby >>
PeerBroadcast ==
  \E id \in PeerIds, ok \in BOOLEAN : Broadcast(id, ok) /\ UNCHANGED << engineVars, codec, recon, events, lobby >>
PeerSend ==
  \E id \in PeerIds, kind \in HostBindings, ok \in BOOLEAN :
     SendInput(id, kind, ok) /\ UNCHANGED << engineVars, codec, recon, events, lobby >>
PeerDeliverState == \E id \in PeerIds : DeliverState(id) /\ UNCHANGED << engineVars, codec, recon, events, lobby >>
PeerDeliverMsg == \E id \in PeerIds : DeliverMsg(id) /\ UNCHANGED << engineVars, codec, recon, events, lobby >>
PeerUnmount == \E id \in PeerIds : Unmount(id) /\ UNCHANGED << engineVars, codec, recon, events, lobby >>
PeerDepart == \E id \in PeerIds : Depart(id) /\ UNCHANGED << engineVars, codec, recon, events, lobby >>
PeerMemberRemoved == \E id \in PeerIds : MemberRemoved(id) /\ UNCHANGED << engineVars, codec, recon, events, lobby >>

NextPeers ==
  \/ PeerEngineTick \/ PeerBroadcast \/ PeerSend \/ PeerDeliverState \/ PeerDeliverMsg
  \/ PeerUnmount \/ PeerDepart \/ PeerMemberRemoved

SpecPeers == PeersInit /\ [][NextPeers]_vars

\* ------------------------------------------------------------------------
\* SpecClient: the engine of a client peer of the 2D build.  The engine runs
\* the same frame loop as on the host; between frames the client-state
\* binding decodes a snapshot of the host against the engine's state and
\* hands it to applyRemoteState.  The snapshot is the encoding of a host
\* world: the host sees the local player where the client has it or still
\* at its spawn, the host's own player alive, shielded or dead, the local
\* player with a shield it collected on the host (granted), and the local
\* team's flag at home, just dropped, or dropped with 1/60 s left.
\* The peer is promoted when the host's player is removed.
\* Positions are whole pixels, which Math.round leaves as they are; times
\* are in 1/100 s, the wire carries tenths of a second.
\* (src/src/network/messages.ts, src/src/network/client.ts:60-98,
\* src/unnamed/part_009:399-418)
\* ------------------------------------------------------------------------
ClientTicks == 6
ClientKeys == {0, 2}
SNAP_DISTANCE_2D == 50
NET_BULLET_LIFE == 100
LastLogicStep == 2

bit(b) == IF b THEN 1 ELSE 0

encodePlayer2D(p) ==
  << p.x, p.y, stateBits(p.state), teamBit(p.team), bit(p.isDashing), bit(p.shieldActive),
     bit(p.speedBoostActive) >>

encodeGameState2D(state) ==
  LET act == SelectSeq(state.powerUps, IsActive)
      flag(t) == << state.flags[t].x, state.flags[t].y, state.flags[t].carrierId,
                    Round(state.flags[t].dropTimer, 10) >>
  IN [p |-> [id \in DOMAIN state.players |-> encodePlayer2D(state.players[id])],
      f |-> [t \in Teams |-> flag(t)],
      s |-> state.score,
      pw |-> [i \in 1..Len(act) |-> << typeIndex(act[i].type), act[i].x, act[i].y, act[i].id >>],
      b |-> [i \in 1..Len(state.projectiles) |->
               << state.projectiles[i].x, state.projectiles[i].y, state.projectiles[i].vx,
                  state.projectiles[i].vy, teamBit(state.projectiles[i].team) >>],
      ph |-> phaseCode(state.gamePhase),
      ct |-> Round(state.countdownTimer, 10),
      w |-> state.winner,
      t |-> state.tick]

decodePlayerState(n) == IF n = 0 THEN "alive" ELSE IF n = 1 THEN "dead" ELSE "carrying"

\* existingPlayer?.field || 0
decodePlayer2D(id, data, existing) ==
  LET known == id \in DOMAIN existing.players
      old == existing.players[id]
  IN [id |-> id,
      team |-> IF data[4] = 0 THEN "blue" ELSE "red",
      x |-> data[1], y |-> data[2],
      vx |-> IF known THEN old.vx ELSE 0,
      vy |-> IF known THEN old.vy ELSE 0,
      state |-> decodePlayerState(data[3]),
      dashCooldown |-> IF known THEN old.dashCooldown ELSE 0,
      isDashing |-> data[5] = 1,
      dashTimer |-> IF known THEN old.dashTimer ELSE 0,
      respawnTimer |-> IF known THEN old.respawnTimer ELSE 0,
      shieldActive |-> data[6] = 1,
      shieldTimer |-> IF known THEN old.shieldTimer ELSE 0,
      speedBoostActive |-> data[7] = 1,
      speedBoostTimer |-> IF known THEN old.speedBoostTimer ELSE 0,
      shootCooldown |-> IF known THEN old.shootCooldown ELSE 0]

decodeGameState2D(compact, existing) ==
  [existing EXCEPT
     !.players = [id \in DOMAIN compact.p |-> decodePlayer2D(id, compact.p[id], existing)],
     !.flags = [t \in Teams |->
                  [existing.flags[t] EXCEPT !.x = compact.f[t][1], !.y = compact.f[t][2],
                                            !.carrierId = compact.f[t][3],
                                            !.dropTimer = compact.f[t][4] * 10]],
     !.score = compact.s,
     !.powerUps = [i \in 1..Len(compact.pw) |->
                     [id |-> compact.pw[i][4], type |-> typeMap[compact.pw[i][1] + 1],
                      x |-> compact.pw[i][2], y |-> compact.pw[i][3], active |-> TRUE]],
     !.projectiles = [i \in 1..Len(compact.b) |->
                        [ownerId |-> "", team |-> IF compact.b[i][5] = 0 THEN "blue" ELSE "red",
                         x |-> compact.b[i][1], y |-> compact.b[i][2],
                         vx |-> compact.b[i][3], vy |-> compact.b[i][4],
                         life |-> NET_BULLET_LIFE]],
     !.gamePhase = phaseOfCode(compact.ph),
     !.countdownTimer = compact.ct * 10,
     !.winner = compact.w,
     !.tick = compact.t]

\* GameEngine.applyRemoteState of the 2D build
applyRemoteState2D(state, remoteState) ==
  IF LocalId \in DOMAIN state.players /\ LocalId \in DOMAIN remoteState.players
  THEN LET localPlayer == state.players[LocalId]
           remote == remoteState.players[LocalId]
           dx == remote.x - localPlayer.x
           dy == remote.y - localPlayer.y
           near == dx * dx + dy * dy < SNAP_DISTANCE_2D * SNAP_DISTANCE_2D
       IN [remoteState EXCEPT
             !.players[LocalId].x = IF near THEN localPlayer.x + Correction(dx) ELSE @,
             !.players[LocalId].y = IF near THEN localPlayer.y + Correction(dy) ELSE @]
  ELSE remoteState

HostCases == {"alive", "shielded", "dead", "granted"}
HostFlagCases == {"home", "dropped", "expiring"}
\* the frames the host has run fewer than this client since the snapshot
\* before: the two frame loops run on different machines
HostLags == {0, 1}

\* the world on the host that a snapshot encodes
hostView(pos, hostCase, flagCase, hostTick) ==
  LET h0 == createPlayer(StrayId, LobbyTeam(StrayId), LobbySpawnIndex(StrayId))
      h1 == IF hostCase = "dead"
            THEN [h0 EXCEPT !.state = "dead", !.respawnTimer = RESPAWN_TIME]
            ELSE IF hostCase = "shielded"
                 THEN [h0 EXCEPT !.shieldActive = TRUE, !.shieldTimer = SHIELD_DURATION]
                 ELSE h0
      m0 == [players[LocalId] EXCEPT !.x = pos.x, !.y = pos.y]
      me == IF hostCase = "granted"
            THEN [m0 EXCEPT !.shieldActive = TRUE, !.shieldTimer = SHIELD_DURATION]
            ELSE m0
      own == LobbyTeam(LocalId)
      f0 == createFlag(own)
      f1 == IF flagCase = "home" THEN f0
            ELSE [f0 EXCEPT !.x = StrayFlagX, !.y = CorridorY,
                            !.dropTimer = IF flagCase = "dropped" THEN FLAG_RETURN_TIME
                                          ELSE LastLogicStep]
  IN [World EXCEPT !.players = (LocalId :> me) @@ (StrayId :> h1),
                   !.flags = [flags EXCEPT ![own] = f1],
                   !.tick = hostTick]

\* ClientManager: the client-state binding
ClientState ==
  \E pos \in {Pt(players[LocalId].x, players[LocalId].y), BLUE_SPAWNS[1]},
     hostCase \in HostCases, flagCase \in HostFlagCases, lag \in HostLags :
     LET data == encodeGameState2D(hostView(pos, hostCase, flagCase, tick - lag))
         decoded == decodeGameState2D(data, World)
     IN /\ StrayId \in DOMAIN players
        /\ lag <= tick
        /\ gamePhase = "playing" \/ (hostCase = "alive" /\ flagCase = "home")
        /\ Install(applyRemoteState2D(World, decoded), "client-state")
        /\ UNCHANGED remoteInputs

ClientFrame == Frame(ClientKeys, FrameDt, {"speed"}, LocDraws, ClientTicks, MaxPowerUps)

\* pusher:member_removed for the host's id: this peer is the host from here
ClientPromoted ==
  /\ StrayId \in DOMAIN players
  /\ Install(removePlayer(World, StrayId), "member_removed")
  /\ UNCHANGED remoteInputs

NextClient == ClientState \/ ClientFrame \/ ClientPromoted

SpecClient == Init /\ [][NextClient]_vars

\* ------------------------------------------------------------------------
\* SpecBroadcast: one HostManager and its engine.  Here peers holds the
\* HostManager of the local peer (whether its interval is set, whether
\* startBroadcasting and destroy were called), inbox the payloads handed to
\* channel.trigger('client-state', ...) in order, and peerLog the last call
\* (ok: trigger did not throw).  The page calls startBroadcasting once, right
\* after the constructor, and destroy on unmount.
\* ------------------------------------------------------------------------
BroadcastTicks == 3
MaxSent == 3

NewHostManager == [broadcastInterval |-> FALSE, started |-> FALSE, destroyed |-> FALSE]

\* the variant below leaves the interval set
stopBroadcastingKeeps(hm) == hm

\* HostManager.stopBroadcasting
stopBroadcasting(hm) == [hm EXCEPT !.broadcastInterval = FALSE]

BroadcastInit ==
  /\ EngineInit
  /\ codec = NoCodec
  /\ recon = NoRecon
  /\ peers = (LocalId :> NewHostManager)
  /\ inbox = << >>
  /\ peerLog = NoPeerLog /\ events = NoEvents /\ lobby = NewMatchmaker

\* HostManager.startBroadcasting
StartBroadcasting ==
  /\ ~peers[LocalId].started
  /\ peers' = [peers EXCEPT ![LocalId].broadcastInterval = TRUE, ![LocalId].started = TRUE]
  /\ peerLog' = [op |-> "startBroadcasting", peer |-> LocalId, arg |-> NoId, ok |-> TRUE]
  /\ UNCHANGED << inbox, engineVars, codec, recon, events, lobby >>

\* the interval's callback
IntervalFires ==
  \E ok \in BOOLEAN :
     /\ peers[LocalId].broadcastInterval
     /\ Len(inbox) < MaxSent
     /\ inbox' = Append(inbox, encodeGameState2D(World))
     /\ peerLog' = [op |-> "broadcast", peer |-> LocalId, arg |-> NoId, ok |-> ok]
     /\ UNCHANGED << peers, engineVars, codec, recon, events, lobby >>

\* HostManager.destroy, from the page's cleanup
DestroyHost ==
  /\ peers[LocalId].started /\ ~peers[LocalId].destroyed
  /\ peers' = [peers EXCEPT ![LocalId] = [stopBroadcasting(@) EXCEPT !.destroyed = TRUE]]
  /\ peerLog' = [op |-> "destroy", peer |-> LocalId, arg |-> NoId, ok |-> TRUE]
  /\ UNCHANGED << inbox, engineVars, codec, recon, events, lobby >>

BroadcastFrame == Frame({0}, FrameDt, {"speed"}, LocDraws, BroadcastTicks, MaxPowerUps)

NextBroadcast == StartBroadcasting \/ IntervalFires \/ DestroyHost \/ BroadcastFrame

SpecBroadcast == BroadcastInit /\ [][NextBroadcast]_vars

\* ------------------------------------------------------------------------
\* The event feed of the game-logic step (src/src/game/physics.ts:384-396,
\* src/unnamed/part_010:780-792). The step's kills, grabs, returns, scores
\* and pick-ups add their notifications, then every timer runs down by dt.
\* A notification's text is its serial number.
\* ------------------------------------------------------------------------
EVENT_DISPLAY_TIME == 400
MAX_EVENTS == 5
MaxAdds == 3
EventDt == 100
EventSerials == 10
EventDts == {EventDt, EventDt + EventDt \div 2}

addEventNoShift(feed, text) == Append(feed, [text |-> text, timer |-> EVENT_DISPLAY_TIME])

addEvent(feed, text) ==
  LET pushed == Append(feed, [text |-> text, timer |-> EVENT_DISPLAY_TIME])
  IN IF Len(pushed) > MAX_EVENTS THEN Tail(pushed) ELSE pushed

\* the k notifications one step adds, one call each
RECURSIVE addEvents(_, _, _)
addEvents(feed, text, k) ==
  IF k = 0 THEN feed ELSE addEvents(addEvent(feed, text), text + 1, k - 1)

\* the closing loop of the step
updateEvents(feed, dt) ==
  LET run == [i \in 1..Len(feed) |-> [feed[i] EXCEPT !.timer = @ - dt]]
  IN SelectSeq(run, LAMBDA e : e.timer > 0)

TextsOf(feed) == {feed[i].text : i \in 1..Len(feed)}

EventTick ==
  /\ events.serial <= EventSerials
  /\ \E k \in 0..MaxAdds, dt \in EventDts :
       LET added == addEvents(events.feed, events.serial, k)
           asked == TextsOf(events.feed) \cup (events.serial..(events.serial + k - 1))
       IN events' = [feed |-> updateEvents(added, dt),
                     serial |-> events.serial + k,
                     dt |-> dt,
                     shifted |-> asked \ TextsOf(added),
                     spliced |-> TextsOf(added) \ TextsOf(updateEvents(added, dt))]
  /\ UNCHANGED << engineVars, codec, recon, peers, inbox, peerLog, lobby >>

EventsInit ==
  /\ EngineInit
  /\ codec = NoCodec
  /\ PeersIdle

NextEvents == EventTick

SpecEvents == EventsInit /\ [][NextEvents]_vars

\* ------------------------------------------------------------------------
\* SpecLobby: one peer's Matchmaker (src/src/lobby/matchmaker.ts) in a lobby
\* of up to three members, as driven by the page with the ready button
\* (src/unnamed/part_004:55-81, 271).  members is what the presence channel
\* lists, the peer itself included.
\* ------------------------------------------------------------------------
LOBBY_COUNTDOWN == 5
LobbyIds == PlayerIds \cup {ThirdId}

\* getPlayers: ready: this.readyStates[member.id] || false
ready(mm, id) == id \in DOMAIN mm.readyStates /\ mm.readyStates[id]

cancelCountdown(mm) ==
  IF mm.countdownInterval
  THEN [mm EXCEPT !.countdownInterval = FALSE, !.countdownValue = 0]
  ELSE mm

checkCountdown(mm) ==
  LET allReady == \A id \in mm.members : ready(mm, id)
  IN IF Cardinality(mm.members) < 2 THEN cancelCountdown(mm)
     ELSE IF allReady /\ ~mm.countdownInterval
          THEN [mm EXCEPT !.countdownValue = LOBBY_COUNTDOWN, !.countdownInterval = TRUE]
     ELSE IF ~allReady /\ mm.countdownInterval THEN cancelCountdown(mm)
     ELSE mm

triggerStart(mm) == IF ~mm.lobbyChannel THEN mm ELSE [mm EXCEPT !.started = TRUE]

Ran(mm, op) == lobby' = [mm EXCEPT !.op = op] /\ UNCHANGED << engineVars, codec, recon, peers, inbox, peerLog, events >>

\* joinLobby and pusher:subscription_succeeded
JoinLobby ==
  /\ lobby.op = "new"
  /\ \E others \in SUBSET (LobbyIds \ {LocalId}) :
        Ran([lobby EXCEPT !.lobbyChannel = TRUE, !.myId = LocalId,
                          !.members = others \cup {LocalId},
                          !.readyStates = (LocalId :> FALSE) @@ @], "subscription_succeeded")

\* pusher:member_added
LobbyMemberAdded ==
  /\ lobby.lobbyChannel
  /\ \E id \in LobbyIds \ lobby.members :
        Ran([lobby EXCEPT !.members = @ \cup {id}], "member_added")

\* pusher:member_removed
LobbyMemberRemoved ==
  /\ lobby.lobbyChannel
  /\ \E id \in lobby.members \ {lobby.myId} :
        LET gone == [lobby EXCEPT !.members = @ \ {id},
                                  !.readyStates = [i \in DOMAIN @ \ {id} |-> @[i]]]
        IN Ran(cancelCountdown(gone), "member_removed")

\* client-ready
LobbyClientReady ==
  /\ lobby.lobbyChannel
  /\ \E id \in lobby.members \ {lobby.myId}, r \in BOOLEAN :
        Ran(checkCountdown([lobby EXCEPT !.readyStates = (id :> r) @@ @]), "client-ready")

\* client-start-game, sent by another member
LobbyClientStartGame ==
  /\ lobby.lobbyChannel
  /\ lobby.members # {lobby.myId}
  /\ Ran([lobby EXCEPT !.started = TRUE], "client-start-game")

ToggleReady ==
  /\ lobby.lobbyChannel
  /\ Ran(checkCountdown([lobby EXCEPT !.readyStates =
                           (lobby.myId :> ~ready(lobby, lobby.myId)) @@ @]), "toggleReady")

\* the setInterval callback of checkCountdown
CountdownFires ==
  /\ lobby.countdownInterval
  /\ LET mm == [lobby EXCEPT !.countdownValue = @ - 1]
     IN IF mm.countdownValue <= 0
        THEN Ran(triggerStart(cancelCountdown(mm)), "triggerStart")
        ELSE Ran(mm, "interval")

LeaveLobby ==
  /\ lobby.lobbyChannel
  /\ Ran([cancelCountdown(lobby) EXCEPT !.lobbyChannel = FALSE], "leave")

LobbyInit ==
  /\ EngineInit
  /\ codec = NoCodec
  /\ PeersIdle

NextLobby ==
  \/ JoinLobby \/ LobbyMemberAdded \/ LobbyMemberRemoved \/ LobbyClientReady
  \/ LobbyClientStartGame \/ ToggleReady \/ CountdownFires \/ LeaveLobby

SpecLobby == LobbyInit /\ [][NextLobby]_vars

\* ------------------------------------------------------------------------
\* Properties
\* ------------------------------------------------------------------------
ChecksOf(l) == {l.checks[i] : i \in 1..Len(l.checks)}
HitsOf(l) == {l.hits[i] : i \in 1..Len(l.hits)}

\* what a scoring check saw: the carrier stands within the score radius of
\* its base; its own flag is uncarried and inside the base tolerance box
NearOwnBase(c) == c.carrying /\ c.distSq < FLAG_SCORE_RADIUS * FLAG_SCORE_RADIUS
OwnFlagHome(c) ==
  c.ownCarrier = NoId /\ c.ownOffX < BASE_TOLERANCE /\ c.ownOffY < BASE_TOLERANCE
Captured(c) == c.scoreAfter = c.scoreBefore + 1

\* C1: a step changes a team's score only through scoring checks of that
\* team's players, each adding one point and each made by a carrier within
\* the score radius of its own base while its own flag is uncarried and
\* inside the base tolerance box; a check of a carrier within the radius
\* whose own flag is carried or away leaves the score unchanged.
C1_ScoreOnlyOnCapture ==
  [][ /\ \A c \in ChecksOf(log') :
           /\ c.scoreAfter # c.scoreBefore => Captured(c) /\ NearOwnBase(c) /\ OwnFlagHome(c)
           /\ NearOwnBase(c) /\ ~OwnFlagHome(c) => c.scoreAfter = c.scoreBefore
      /\ \A t \in Teams :
           score'[t] = score[t] + Cardinality({i \in 1..Len(log'.checks) :
                                                  log'.checks[i].team = t
                                                  /\ Captured(log'.checks[i])})
    ]_vars

C1_Witness == \E c \in ChecksOf(log) : Captured(c) /\ NearOwnBase(c) /\ OwnFlagHome(c)

\* C2: a capture that brings the score to SCORE_TO_WIN ends the match in that
\* step with that team as winner; the phase is gameover only with a winner
\* whose score is at least SCORE_TO_WIN; there is no winner while both scores
\* are below it.
C2_WinAtScoreToWin ==
  /\ \A c \in ChecksOf(log) :
        Captured(c) /\ c.scoreAfter >= SCORE_TO_WIN
           => /\ c.phaseAfter = "gameover" /\ c.winnerAfter = c.team
              /\ gamePhase = "gameover" /\ winner = c.team
  /\ gamePhase = "gameover" => winner \in Teams /\ score[winner] >= SCORE_TO_WIN
  /\ (\A t \in Teams : score[t] < SCORE_TO_WIN) => winner = NoId /\ gamePhase # "gameover"

C2_Witness ==
  /\ gamePhase = "gameover" /\ winner = "red"
  /\ \E c \in ChecksOf(log) : Captured(c) /\ c.scoreAfter = SCORE_TO_WIN /\ c.team = "red"

\* C3: from a state in the gameover phase no step changes a score.
C3_NoScoreAfterGameover ==
  [][gamePhase = "gameover" => score' = score]_vars

\* a frame ran in the gameover phase, with a bullet in flight and an input
\* of the remote player in force
C3_Witness ==
  /\ gamePhase = "gameover" /\ log.op = "tick" /\ log.checks = << >>
  /\ Len(projectiles) > 0 /\ remoteInputs # << >>


CarriedBy(id) == {t \in Teams : flags[t].carrierId = id}

\* C4: a player is carrying exactly when one flag names it as carrier, and
\* that flag is the other team's; no flag names a carrier that is not among
\* the players.
C4_CarryingIffCarrier ==
  /\ \A id \in DOMAIN players :
        players[id].state = "carrying" <=> CarriedBy(id) = {Other(players[id].team)}
  /\ \A id \in DOMAIN players :
        players[id].state # "carrying" => CarriedBy(id) = {}
  /\ \A t \in Teams : flags[t].carrierId # NoId => flags[t].carrierId \in DOMAIN players

\* a carrier has just been shot while the carrier of the other flag has left
C4_Witness ==
  /\ \E h \in HitsOf(log) : h.victim.state = "carrying" /\ h.victimAfter.state = "dead"
  /\ \E t \in Teams : flags[t].dropTimer = FLAG_RETURN_TIME
  /\ DOMAIN players # PlayerIds

\* C5: a dead player is the carrier of no flag and has no active buff:
\* shieldActive, speedBoostActive and isDashing are all false.
C5_DeadHasNoFlagNoBuff ==
  \A id \in DOMAIN players :
     players[id].state = "dead"
        => /\ CarriedBy(id) = {}
           /\ ~players[id].shieldActive
           /\ ~players[id].speedBoostActive
           /\ ~players[id].isDashing

\* C6: after a tick every flag whose carrier is among the players is at its
\* carrier's position.
C6_CarriedFlagAtCarrier ==
  log.op = "tick"
     => \A t \in Teams :
           flags[t].carrierId \in DOMAIN players
              => /\ flags[t].x = players[flags[t].carrierId].x
                 /\ flags[t].y = players[flags[t].carrierId].y

\* C7: a hit on a shielded player takes the shield (shieldActive false,
\* shieldTimer 0) and leaves its lifecycle state; a hit on an unshielded
\* player makes it dead with respawnTimer = RESPAWN_TIME and, if it was
\* carrying, leaves the carried flag uncarried at the victim's position with
\* dropTimer = FLAG_RETURN_TIME > 0.
C7_HitOutcome ==
  \A h \in HitsOf(log) :
     /\ h.victim.state # "dead"
     /\ IF h.victim.shieldActive
        THEN /\ ~h.victimAfter.shieldActive
             /\ h.victimAfter.shieldTimer = 0
             /\ h.victimAfter.state = h.victim.state
        ELSE /\ h.victimAfter.state = "dead"
             /\ h.victimAfter.respawnTimer = RESPAWN_TIME
             /\ h.victim.state = "carrying"
                   => /\ h.flagAfter.carrierId = NoId
                      /\ h.flagAfter.x = h.victim.x /\ h.flagAfter.y = h.victim.y
                      /\ h.flagAfter.dropTimer = FLAG_RETURN_TIME
                      /\ FLAG_RETURN_TIME > 0

C7_Witness ==
  \E h \in HitsOf(log) :
     h.victim.state = "carrying" /\ ~h.victim.shieldActive /\ h.victimAfter.state = "dead"

AtOwnSpawn(p) == \E i \in 1..Len(SpawnsOf(p.team)) : SpawnsOf(p.team)[i] = Pt(p.x, p.y)

\* C8: a dead player stops being dead only in a frame's game-logic step, with
\* respawnTimer at or below 0, as alive, at a spawn point of its own team,
\* with zero velocity.
C8_RespawnOnlyOnTimer ==
  [][\A id \in DOMAIN players \cap DOMAIN players' :
        players[id].state = "dead" /\ players'[id].state # "dead"
           => /\ log'.op = "tick" /\ id \in log'.respawned
              /\ players'[id].state = "alive"
              /\ players'[id].respawnTimer <= 0
              /\ AtOwnSpawn(players'[id])
              /\ players'[id].vx = 0 /\ players'[id].vy = 0
    ]_vars

C8_Witness ==
  \E id \in log.respawned :
     /\ id \in DOMAIN players /\ players[id].state = "alive"
     /\ players[id].respawnTimer <= 0 /\ AtOwnSpawn(players[id])


\* C9: with the dash key held in every frame, a dash begins only when no dash
\* is under way and, if the player dashed before, DASH_COOLDOWN of frame time
\* has passed since that dash began or a dash_reset was collected since.
C9_OneDashPerCooldown ==
  [][\A id \in log'.dashed :
        /\ id \in DOMAIN players /\ ~players[id].isDashing
        /\ \/ dashWatch[id].since < 0
           \/ dashWatch[id].reset
           \/ dashWatch[id].since + log'.dt >= DASH_COOLDOWN
    ]_vars

\* a third dash begins once the cooldown has run out, after a second one that
\* a dash_reset allowed
C9_Witness ==
  \E id \in log.dashed :
     /\ dashWatch[id].n = MaxDashes /\ ~dashWatch[id].byReset
     /\ dashWatch[id].waited /\ dashWatch[id].resetDashes = 1

\* ------------------------------------------------------------------------
\* The codec's round trip.  A number the wire carries with a scale factor
\* comes back within one step of that scale: 0.01 for a position, 0.001 for
\* an angle.
\* ------------------------------------------------------------------------
Step(scale) == Fine \div scale
Close(a, b, scale) == Abs(a - b) <= Step(scale)

PlayerWireAgrees(p, q) ==
  /\ Close(p.x, q.x, POS_SCALE) /\ Close(p.z, q.z, POS_SCALE)
  /\ Close(p.yaw, q.yaw, ANGLE_SCALE) /\ Close(p.pitch, q.pitch, ANGLE_SCALE)
  /\ Close(p.shootCooldown, q.shootCooldown, COOLDOWN_SCALE)
  /\ p.state = q.state /\ p.team = q.team /\ p.isDashing = q.isDashing
  /\ p.shieldActive = q.shieldActive /\ p.speedBoostActive = q.speedBoostActive

PlayerRestAgrees(p, q) ==
  /\ p.id = q.id /\ p.name = q.name /\ p.y = q.y /\ p.health = q.health
  /\ p.vx = q.vx /\ p.vy = q.vy /\ p.vz = q.vz
  /\ p.dashCooldown = q.dashCooldown /\ p.dashTimer = q.dashTimer
  /\ p.respawnTimer = q.respawnTimer /\ p.shieldTimer = q.shieldTimer
  /\ p.speedBoostTimer = q.speedBoostTimer /\ p.flashTimer = q.flashTimer

PlayersAgree(W, D) ==
  /\ DOMAIN D.players = DOMAIN W.players
  /\ \A id \in DOMAIN W.players :
        PlayerWireAgrees(W.players[id], D.players[id])
        /\ PlayerRestAgrees(W.players[id], D.players[id])

FlagAgrees(f, g) ==
  /\ Close(f.x, g.x, POS_SCALE) /\ Close(f.z, g.z, POS_SCALE)
  /\ Close(f.dropTimer, g.dropTimer, TIMER_SCALE)
  /\ f.carrierId = g.carrierId
  /\ f.team = g.team /\ f.y = g.y /\ f.baseX = g.baseX /\ f.baseZ = g.baseZ

FlagsAgree(W, D) == \A t \in Teams : FlagAgrees(W.flags[t], D.flags[t])

ProjectileWireAgrees(b, c) ==
  /\ Close(b.x, c.x, POS_SCALE) /\ Close(b.y, c.y, POS_SCALE) /\ Close(b.z, c.z, POS_SCALE)
  /\ Close(b.vx, c.vx, VELOCITY_SCALE) /\ Close(b.vy, c.vy, VELOCITY_SCALE)
  /\ Close(b.vz, c.vz, VELOCITY_SCALE)
  /\ b.team = c.team

ProjectileRestAgrees(b, c) == b.id = c.id /\ b.ownerId = c.ownerId /\ b.life = c.life

PowerUpWireAgrees(u, v) ==
  /\ u.type = v.type /\ u.id = v.id
  /\ Close(u.x, v.x, POS_SCALE) /\ Close(u.z, v.z, POS_SCALE)

PowerUpRestAgrees(u, v) == u.animTimer = v.animTimer /\ u.active = v.active

RestOfWorldAgrees(W, D) ==
  /\ D.score = W.score /\ D.gamePhase = W.gamePhase /\ D.winner = W.winner
  /\ D.tick = W.tick
  /\ Close(W.countdownTimer, D.countdownTimer, TIMER_SCALE)
  /\ D.events = W.events /\ D.powerUpSpawnTimer = W.powerUpSpawnTimer

ReconBoth == LocalId \in DOMAIN recon.local.players /\ LocalId \in DOMAIN recon.remote.players
ReconLocal == recon.local.players[LocalId]
ReconHost == recon.remote.players[LocalId]
ReconOut == recon.out.players[LocalId]
ReconNear ==
  WithinSnap(ReconHost.x - ReconLocal.x, ReconHost.z - ReconLocal.z)

\* C11: when the place the host reports for the local player is less than
\* 1.5 away in the plane from the place the client had it, the place after
\* applyRemoteState is the client's plus 0.3 of the difference, on both axes
C11_BlendWithinThreshold ==
  (recon.done /\ ReconBoth /\ ReconNear) =>
     /\ 10 * ReconOut.x = 10 * ReconLocal.x + 3 * (ReconHost.x - ReconLocal.x)
     /\ 10 * ReconOut.z = 10 * ReconLocal.z + 3 * (ReconHost.z - ReconLocal.z)

C11_Witness ==
  /\ recon.done /\ ReconBoth /\ ReconNear
  /\ ReconHost.x # ReconLocal.x /\ ReconHost.z # ReconLocal.z
  /\ ReconOut.x # ReconHost.x /\ ReconOut.x # ReconLocal.x

\* ------------------------------------------------------------------------
\* Pickup and capture
\* ------------------------------------------------------------------------
PicksOf(l) == {l.picks[i] : i \in 1..Len(l.picks)}
FlagAtBase(f) == f.x = f.baseX /\ f.y = f.baseY

\* C12: from the initial world, an alive blue player that is within the
\* pickup radius of the uncarried red flag when its pickup test runs is
\* carrying after it and the red flag's carrier is that player; a carrying
\* blue player within the score radius of the blue base while the blue flag
\* is uncarried at its base adds exactly one to blue's score, after which the
\* red flag is at its base with no carrier and dropTimer 0 and the player is
\* alive.
C12_PickupThenCapture ==
  /\ \A k \in PicksOf(log) :
        (k.team = "blue" /\ k.alive /\ k.uncarried /\ k.near)
           => k.stateAfter = "carrying" /\ k.carrierAfter = k.id
  /\ \A c \in ChecksOf(log) :
        (c.team = "blue" /\ NearOwnBase(c)
         /\ c.ownCarrier = NoId /\ c.ownOffX = 0 /\ c.ownOffY = 0)
           => /\ c.scoreAfter = c.scoreBefore + 1
              /\ FlagAtBase(c.enemyAfter)
              /\ c.enemyAfter.carrierId = NoId /\ c.enemyAfter.dropTimer = 0
              /\ c.stateAfter = "alive"

C12_Witness ==
  /\ score.blue = 1
  /\ \E c \in ChecksOf(log) :
        /\ c.team = "blue" /\ NearOwnBase(c) /\ c.scoreBefore = 0 /\ c.scoreAfter = 1
        /\ c.ownCarrier = NoId /\ c.ownOffX = 0 /\ c.ownOffY = 0
  /\ flags.red.carrierId = NoId /\ FlagAtBase(flags.red)

\* ------------------------------------------------------------------------
\* The roles of the peers
\* ------------------------------------------------------------------------
RolesOf(p) ==
  << p.hostManagerRef, p.clientManagerRef, p.broadcastInterval, p.onInputChange,
     p.bound, p.destroyed >>

\* C13: the member_removed handler promotes a peer exactly when its id sorts
\* first among the ids left in its world once the departed id is removed and
\* it has no host-role object; promotion destroys and clears the client-role
\* object, makes a HostManager on the same engine and starts its broadcast;
\* in every other case the peer's role objects stay as they were.
C13_PromotionRule ==
  [][ peerLog'.op = "member_removed" =>
        LET id == peerLog'.peer
            before == peers[id]
            after == peers'[id]
            remaining == before.ids \ {peerLog'.arg}
        IN /\ after.ids = remaining
           /\ IF sortedFirst(remaining) = id /\ ~before.hostManagerRef
              THEN /\ after.hostManagerRef /\ after.broadcastInterval
                   /\ HostBindings \subseteq after.bound
                   /\ ~after.clientManagerRef /\ ~after.onInputChange
                   /\ before.clientManagerRef => "client" \in after.destroyed
                   /\ after.tick = before.tick
              ELSE RolesOf(after) = RolesOf(before)
    ]_vars

C13_Witness ==
  /\ peerLog.op = "member_removed" /\ peerLog.peer = "b" /\ peerLog.arg = "a"
  /\ peers["b"].hostManagerRef /\ ~peers["b"].clientManagerRef
  /\ "client" \in peers["b"].destroyed
  /\ peers["c"].present /\ ~peers["c"].hostManagerRef

\* C14: whatever the order in which departures, member_removed events and
\* snapshots are delivered, at most one peer still on the channel has a
\* host-role object.
C14_AtMostOneHost == Cardinality(Hosts) <= 1

C14_Witness ==
  /\ ~peers["a"].present /\ ~peers["b"].present
  /\ Hosts = {"c"}
  /\ "b" \in peers["c"].ids

\* C16: once a role object is destroyed its callbacks are silent: a peer
\* whose ClientManager was destroyed applies no snapshot, and a peer whose
\* HostManager was destroyed consumes no client input and no client shot.
C16_DestroyedRoleIsSilent ==
  /\ (peerLog.op = "client-state" /\ "client" \in peers[peerLog.peer].destroyed)
        => ~peerLog.ok
  /\ (peerLog.op \in {"deliver-client-input", "deliver-client-shoot"}
      /\ "host" \in peers[peerLog.peer].destroyed)
        => ~peerLog.ok

SendOps == {"broadcast", "client-input", "client-shoot"}

\* C17: a send that throws, in the periodic broadcast or in an input or shoot
\* send, changes nothing: the peer's world, its running engine and its
\* broadcast interval are as before, and nothing is put on the channel.
C17_FailedSendAbsorbed ==
  [][ (peerLog'.op \in SendOps /\ ~peerLog'.ok) => peers' = peers /\ inbox' = inbox ]_vars

C17_Witness ==
  /\ peerLog.op = "broadcast" /\ ~peerLog.ok
  /\ peers[peerLog.peer].broadcastInterval /\ peers[peerLog.peer].running
  /\ peers[peerLog.peer].tick > 0
  /\ InFlight < MaxInFlight

\* ------------------------------------------------------------------------
\* The drop timer of a flag nobody carries
\* ------------------------------------------------------------------------
FlagHome3D(f) == f.x = f.baseX /\ f.z = f.baseZ
UncarriedFlagRule(f) ==
  f.carrierId = NoId =>
     /\ f.dropTimer <= 0 => FlagHome3D(f)
     /\ ~FlagHome3D(f) => f.dropTimer > 0

\* C15: on the host, and on a client once it has applied the host's
\* snapshot, a flag without carrier whose dropTimer is 0 or less is at its
\* base, and a flag without carrier away from its base has a dropTimer above 0
C15_UncarriedFlagTimer ==
  /\ ~recon.done => \A t \in Teams : UncarriedFlagRule(recon.remote.flags[t])
  /\ recon.done => \A t \in Teams : UncarriedFlagRule(recon.out.flags[t])

\* ------------------------------------------------------------------------
\* References to a player the world does not hold
\* ------------------------------------------------------------------------
HitResolved(h) ==
  \/ h.victimAfter.state = "dead"
  \/ h.victim.shieldActive /\ ~h.victimAfter.shieldActive

\* C18: while the world holds no player of an id, a client-input or
\* client-shoot message of that id makes no projectile and changes no player,
\* no step makes a player of that id, a flag that names the id as carrier
\* stays where it is, and a bullet of that owner that reaches an enemy still
\* resolves its hit and is removed.
C18_UnknownIdsHarmless ==
  [][ StrayId \notin DOMAIN players =>
        /\ StrayId \notin DOMAIN players'
        /\ log'.op \in {"client-input", "client-shoot"}
              => projectiles' = projectiles /\ players' = players /\ flags' = flags
        /\ \A t \in Teams :
              flags[t].carrierId = StrayId
                 => flags'[t].x = flags[t].x /\ flags'[t].y = flags[t].y
        /\ \A h \in HitsOf(log') :
              HitResolved(h) /\ Len(projectiles') < Len(projectiles)
    ]_vars

C18_Witness ==
  /\ StrayId \notin DOMAIN players /\ StrayId \in DOMAIN remoteInputs
  /\ log.op = "tick" /\ log.hits # << >>
  /\ players[LocalId].state = "dead"
  /\ \E t \in Teams : flags[t].carrierId = StrayId /\ flags[t].x = StrayFlagX

\* ------------------------------------------------------------------------
\* The stored input of a remote player
\* ------------------------------------------------------------------------
RemoteMoving ==
  \E id \in RemoteIds :
     /\ id \in DOMAIN players /\ players[id].state # "dead"
     /\ (players[id].vx # 0 \/ players[id].vy # 0)

\* C19: once QuietTicks playing ticks have passed on the host without a
\* client-input message of the remote player, the host no longer steps the
\* player from the last input it received and the player has come to rest
C19_QuietStreamStopsPlayer ==
  (inputMgr.on /\ inputMgr.quiet >= QuietTicks) => ~RemoteMoving

\* C20: between one client-input message with the dash bit and the next, the
\* host steps the player with dash set on at most one tick
C20_DashOnOneTick == inputMgr.on => inputMgr.dashTicks <= 1



\* ------------------------------------------------------------------------
\* Projectile hits (SpecVolley)
\* ------------------------------------------------------------------------
HitRadius == PLAYER_RADIUS + BULLET_RADIUS

\* the bullet of hit h could hit the player p
InReach(h, p) ==
  /\ p.team # h.bullet.team
  /\ p.state # "dead"
  /\ Within(h.bullet.x, h.bullet.y, p.x, p.y, HitRadius)

\* C21: in one projectile step each projectile causes at most one outcome, a
\* shield pop or a kill of exactly one non-dead enemy-team player within hit
\* radius, and a projectile that hits is removed in that same step; a
\* projectile never affects a player of its own team, a dead player, or a
\* second player.
C21_OneOutcomePerProjectile ==
  [][log'.op = "projectiles" =>
       LET hits == log'.hits
       IN /\ Len(hits) <= Len(projectiles)
          /\ Len(projectiles') <= Len(projectiles) - Len(hits)
          /\ \A j, k \in 1..Len(hits) : j # k => hits[j].index # hits[k].index
          /\ \A id \in DOMAIN players :
                players'[id] # players[id] => \E j \in 1..Len(hits) : hits[j].id = id
          /\ \A j \in 1..Len(hits) :
                LET h == hits[j]
                IN /\ InReach(h, h.victim)
                   /\ h.changed = {h.id}
                   /\ h.removed
                   /\ IF h.victim.shieldActive
                      THEN /\ ~h.victimAfter.shieldActive
                           /\ h.victimAfter.state = h.victim.state
                      ELSE h.victimAfter.state = "dead"]_vars

\* a step in which a bullet hit one of two enemies within its reach
C21_Witness ==
  /\ log.op = "projectiles"
  /\ \E j \in 1..Len(log.hits) :
        \E id \in DOMAIN players \ {log.hits[j].id} :
           /\ InReach(log.hits[j], players[id])
           /\ \E own \in DOMAIN players :
                 /\ players[own].team = log.hits[j].bullet.team
                 /\ players[own].state # "dead"
                 /\ Within(log.hits[j].bullet.x, log.hits[j].bullet.y,
                           players[own].x, players[own].y, HitRadius)

\* ------------------------------------------------------------------------
\* Player steps of a frame (SpecIdle)
\* ------------------------------------------------------------------------
\* C22: while the game is in phase playing on the host, every player, a
\* remote player from whom no input message has been received included, is
\* stepped by updatePlayer once per tick, so that the respawn timer of every
\* dead player counts down on every tick.
C22_EveryPlayerStepped ==
  log.op = "tick" => log.waiting = {}

\* ------------------------------------------------------------------------
\* The local player's dash key (SpecLocal)
\* ------------------------------------------------------------------------
\* C23: when the local user presses the dash key while the local player is
\* alive, not dashing and has dashCooldown at or below 0, the next
\* simulation tick begins a dash for the local player.
C23_PressBeginsDash ==
  (log.op = "tick" /\ inputMgr.press = "consumed") => LocalId \in log.dashed

\* ------------------------------------------------------------------------
\* Host handoff under interleaving (SpecPeers)
\* ------------------------------------------------------------------------
\* every event of the channel has been handled by the peers still there,
\* and none of them has left the page
Settled ==
  \A id \in Present :
     /\ peers[id].running
     /\ inbox[id].removed = << >>
     /\ inbox[id].states = {}

\* C24: if the host departs and the member-removed events have reached every
\* surviving peer, then whatever the interleaving with in-flight snapshots of
\* the old host and with other departures, exactly one surviving peer, the
\* one with the minimum id among the survivors, holds the host role and is
\* broadcasting.
C24_HandoffSettles ==
  (sortedFirst(PeerIds) \notin Present /\ Present # {} /\ Settled) =>
     /\ Hosts = {sortedFirst(Present)}
     /\ peers[sortedFirst(Present)].broadcastInterval

\* ------------------------------------------------------------------------
\* The frame loop on a client (SpecClient)
\* ------------------------------------------------------------------------
\* the host's player is in every snapshot: the peer is a client for as long
\* as it holds that player
IsClient == StrayId \in DOMAIN players

\* C25: on a client peer the per-frame update changes only the local
\* player's own movement state; the lifecycle of the other players changes
\* only when a host snapshot is applied, so a player the latest snapshot
\* reported dead is not revived by a frame of the client.
C25_ClientFrameRevivesNobody ==
  (IsClient /\ log.op = "tick") => log.respawned \ {LocalId} = {}

\* ------------------------------------------------------------------------
\* Reconciliation at and above the threshold (SpecReconcile)
\* ------------------------------------------------------------------------
\* C26: when the place the host reports for the local player is 1.5 or more
\* away from the place the client predicted, applyRemoteState applies no
\* correction: the local player is at the predicted place after the call,
\* not at the reported one.
C26_NoCorrectionAboveThreshold ==
  (recon.done /\ ReconBoth /\ ~ReconNear) =>
     /\ ReconOut.x = ReconLocal.x
     /\ ReconOut.z = ReconLocal.z

\* ------------------------------------------------------------------------
\* What a decoded snapshot is made of (SpecReconcile)
\* ------------------------------------------------------------------------
\* the fields of a player that the wire does not carry
KeptFields ==
  {"vx", "vz", "dashCooldown", "dashTimer", "respawnTimer", "shieldTimer", "speedBoostTimer",
   "flashTimer"}

\* C27: decodeGameState(S, E) yields a world whose players are exactly the
\* ids of S; for each id the fields on the wire come from S, and name,
\* velocity, the dash, respawn, shield and speed-boost timers and the flash
\* timer come from E's player of that id when there is one and are the
\* first 8 characters of the id and 0 otherwise; events, powerUpSpawnTimer
\* and the flags' base positions come from E.
C27_DecodeMergesByPlayerId ==
  recon.done =>
     LET S == recon.sent
         E == recon.local
         D == recon.remote
     IN /\ DOMAIN D.players = DOMAIN S.p
        /\ \A id \in DOMAIN S.p :
              LET d == D.players[id]
                  w == S.p[id]
              IN /\ d.id = id
                 /\ d.x = fromWire(w[1], POS_SCALE) /\ d.z = fromWire(w[2], POS_SCALE)
                 /\ d.yaw = fromWire(w[3], ANGLE_SCALE) /\ d.pitch = fromWire(w[4], ANGLE_SCALE)
                 /\ stateBits(d.state) = w[5] /\ teamBit(d.team) = w[6]
                 /\ flagBits(d) = w[7]
                 /\ d.shootCooldown = fromWire(w[8], COOLDOWN_SCALE)
                 /\ IF id \in DOMAIN E.players
                    THEN /\ d.name = E.players[id].name
                         /\ \A f \in KeptFields : d[f] = E.players[id][f]
                    ELSE /\ d.name = First8(id)
                         /\ \A f \in KeptFields : d[f] = 0
        /\ D.events = E.events
        /\ D.powerUpSpawnTimer = E.powerUpSpawnTimer
        /\ \A t \in Teams : /\ D.flags[t].baseX = E.flags[t].baseX
                             /\ D.flags[t].baseZ = E.flags[t].baseZ

\* a snapshot with a player the client has not seen, without a player the
\* client has, and with a player whose timers the client holds
C27_Witness ==
  /\ recon.done
  /\ GuestId \in DOMAIN recon.remote.players
  /\ recon.remote.players[GuestId].name # GuestId
  /\ LocalId \in DOMAIN recon.local.players \ DOMAIN recon.sent.p
  /\ \E id \in DOMAIN recon.remote.players \cap DOMAIN recon.local.players :
        recon.remote.players[id].speedBoostTimer > 0

\* ------------------------------------------------------------------------
\* Dropped flags on a promoted host (SpecClient)
\* ------------------------------------------------------------------------
\* C28: on whichever peer is host, one promoted from a decoded snapshot
\* included, every flag that is uncarried and away from its base has a
\* positive dropTimer, which the game-logic ticks count down until the flag
\* is placed at its base.
C28_DroppedFlagCountsDown ==
  (~IsClient /\ log.op = "tick") =>
     \A t \in Teams :
        (flags[t].carrierId = NoId /\ ~FlagAtBase(flags[t])) => flags[t].dropTimer > 0

\* ------------------------------------------------------------------------
\* Buff flags and timers after a player step (SpecClient)
\* ------------------------------------------------------------------------
\* the players the last frame stepped with updatePlayer
Stepped == {id \in DOMAIN players : id = LocalId \/ id \in DOMAIN remoteInputs}

\* C29: after every updatePlayer step on any peer, host, client after
\* decoding a snapshot or promoted host, a player's shieldActive is true
\* exactly when its shieldTimer > 0 and its speedBoostActive is true exactly
\* when its speedBoostTimer > 0.
C29_BuffFlagsMatchTimers ==
  (log.op = "tick" /\ log.dt > 0) =>
     \A id \in Stepped :
        /\ players[id].shieldActive <=> players[id].shieldTimer > 0
        /\ players[id].speedBoostActive <=> players[id].speedBoostTimer > 0

\* ------------------------------------------------------------------------
\* Power-up spawns (SpecMatch)
\* ------------------------------------------------------------------------
\* C30: whenever the power-up spawn timer expires while fewer than 3
\* power-ups are active, that step adds exactly one new active power-up,
\* placed at an anchor point not occupied by an active power-up, and resets
\* the timer to POWERUP_SPAWN_INTERVAL.
C30_DueSpawnAddsOne ==
  (log.op = "tick" /\ log.spawn.due) =>
     /\ log.spawn.added = 1
     /\ log.spawn.free
     /\ powerUpSpawnTimer = POWERUP_SPAWN_INTERVAL

\* C31: on the host at most 3 power-ups are active and no two active ones lie
\* on the same anchor point; within a step a power-up is collected by at most
\* one player, who is not dead, and an inactive power-up stays inactive.
OnAnchor(pu) == \E k \in AllLocs : POWERUP_LOCATIONS[k] = Pt(pu.x, pu.y)
PowerUpsApart ==
  \A i, j \in 1..Len(powerUps) :
     (i # j /\ powerUps[i].active /\ powerUps[j].active)
        => (powerUps[i].x # powerUps[j].x \/ powerUps[i].y # powerUps[j].y)
OneTaker ==
  /\ \A m, n \in 1..Len(log.taken) : m # n => log.taken[m].pu # log.taken[n].pu
  /\ \A m \in 1..Len(log.taken) : log.taken[m].state # "dead"
InactiveStays ==
  /\ Len(powerUps') >= Len(powerUps)
  /\ \A i \in 1..Len(powerUps) :
        /\ powerUps'[i].id = powerUps[i].id
        /\ ~powerUps[i].active => ~powerUps'[i].active
C31_PowerUpsBounded ==
  /\ [](/\ ActiveCount(powerUps) <= MAX_ACTIVE_POWERUPS
        /\ \A i \in 1..Len(powerUps) : OnAnchor(powerUps[i])
        /\ PowerUpsApart
        /\ OneTaker)
  /\ [][InactiveStays]_vars
\* three power-ups are active with the spawn timer run out, and one was
\* collected before
C31_Witness ==
  /\ ActiveCount(powerUps) = MAX_ACTIVE_POWERUPS
  /\ powerUpSpawnTimer <= 0
  /\ \E i \in 1..Len(powerUps) : ~powerUps[i].active

\* C32: a key event of a client sends an input message exactly when the mask
\* it encodes differs from the last mask the client sent (0 before the first
\* message); consecutive messages differ, and an event that encodes the last
\* mask again, such as a key repeat, sends nothing.
KeysMask(keys, dash) ==
  (IF "w" \in keys THEN 1 ELSE 0) + (IF "s" \in keys THEN 2 ELSE 0)
  + (IF "a" \in keys THEN 4 ELSE 0) + (IF "d" \in keys THEN 8 ELSE 0)
  + (IF dash THEN 16 ELSE 0)
C32_SendsOnChangeOnly ==
  LET ev == inputMgr.ev
  IN /\ ev.kind # "none" =>
          /\ ev.mask = KeysMask(inputMgr.keys, ev.key = " " /\ ev.kind # "up")
          /\ ev.sent <=> ev.mask # ev.before
          /\ inputMgr.last = ev.mask
     /\ \A i \in 1..(Len(inputMgr.wire) - 1) : inputMgr.wire[i] # inputMgr.wire[i + 1]
     /\ inputMgr.wire # << >> => inputMgr.wire[Len(inputMgr.wire)] = inputMgr.last
\* with the key for left held, a repeat of the dash key encoded the mask of
\* the message on its way and sent nothing
C32_Witness ==
  /\ inputMgr.ev.kind = "repeat"
  /\ inputMgr.ev.key = " "
  /\ ~inputMgr.ev.sent
  /\ inputMgr.ev.mask = 20
  /\ inputMgr.wire = << 20 >>

\* C33: a HostManager hands snapshots to the channel only after
\* startBroadcasting and before destroy; every firing of the interval hands
\* over one snapshot, the encoding of the engine's state at that moment,
\* changed or not; after destroy none is handed over.
InWindow(hm) == hm.started /\ ~hm.destroyed
C33_SnapshotsWithinWindow ==
  [][/\ inbox' # inbox =>
           /\ InWindow(peers[LocalId])
           /\ peerLog'.op = "broadcast"
           /\ inbox' = Append(inbox, encodeGameState2D(World))
     /\ (InWindow(peers[LocalId]) /\ Len(inbox) < MaxSent) => ENABLED IntervalFires
     /\ peers[LocalId].destroyed => inbox' = inbox /\ ~ENABLED IntervalFires]_vars
\* the manager was destroyed after it sent the same snapshot twice and then,
\* the world having moved on, another one
C33_Witness ==
  /\ peers[LocalId].destroyed
  /\ Len(inbox) = 3
  /\ inbox[1] = inbox[2]
  /\ inbox[3] # inbox[2]

\* C34: on the host a step adds at most one projectile, and only a shoot
\* handler does: for a known shooter that is not dead and whose shootCooldown
\* is at or below 0, which the step sets to SHOOT_COOLDOWN.  Apart from that a
\* shootCooldown only counts down by the dt of a frame, so two projectiles of
\* one player are a whole count-down apart.
ShotAdded == Len(projectiles') = Len(projectiles) + 1
NewShot == projectiles'[Len(projectiles')]
OldShot(b) ==
  \E j \in 1..Len(projectiles) :
     /\ b.ownerId = projectiles[j].ownerId
     /\ b = projectiles[j] \/ b.life = projectiles[j].life - BulletDt
C34_ShotsNeedCooldown ==
  [][/\ Len(projectiles') <= Len(projectiles) + 1
     /\ ShotAdded =>
           /\ log'.op \in {"shoot", "client-shoot"}
           /\ SubSeq(projectiles', 1, Len(projectiles)) = projectiles
           /\ NewShot.life = BULLET_LIFE
           /\ NewShot.ownerId \in DOMAIN players
           /\ players[NewShot.ownerId].state # "dead"
           /\ players[NewShot.ownerId].shootCooldown <= 0
           /\ players'[NewShot.ownerId].shootCooldown = SHOOT_COOLDOWN
     /\ ~ShotAdded => \A i \in 1..Len(projectiles') : OldShot(projectiles'[i])
     /\ \A id \in DOMAIN players \cap DOMAIN players' :
           LET c == players[id].shootCooldown
               d == players'[id].shootCooldown
           IN \/ d = c
              \/ c > 0 /\ log'.op = "tick" /\ d = c - log'.dt
              \/ c <= 0 /\ d = SHOOT_COOLDOWN /\ ShotAdded /\ NewShot.ownerId = id]_vars
\* a second projectile of the remote player joins its first one, which has
\* flown for a while
C34_Witness ==
  /\ log.op = "client-shoot"
  /\ Len(projectiles) = 2
  /\ \A i \in 1..2 : projectiles[i].ownerId # LocalId
  /\ projectiles[1].life < BULLET_LIFE
  /\ projectiles[2].life = BULLET_LIFE

\* C35: in a playing tick of the host every projectile loses the fixed step
\* of lifetime, and one that is left afterwards has lifetime above 0, lies on
\* no wall or out-of-bounds tile and within reach of no living enemy; the
\* others were removed in that tick.  A projectile is therefore gone after at
\* most BULLET_LIFE / BulletDt ticks, rounded up.
Moved(b, a) ==
  /\ a = [b EXCEPT !.x = @ + (b.vx * BulletDt) \div 100,
                   !.y = @ + (b.vy * BulletDt) \div 100,
                   !.life = @ - BulletDt]
InFlightAfterTick(a) ==
  /\ a.life > 0
  /\ ~isWall(worldToTile(a.x, a.y).col, worldToTile(a.x, a.y).row)
  /\ \A id \in DOMAIN players' :
        (players'[id].team # a.team /\ players'[id].state # "dead")
           => ~Within(a.x, a.y, players'[id].x, players'[id].y, PLAYER_RADIUS + BULLET_RADIUS)
C35_ProjectilesRunOut ==
  [][(gamePhase = "playing" /\ log'.op = "tick") =>
        /\ Len(projectiles') + Len(log'.gone) = Len(projectiles)
        /\ \A i \in 1..Len(projectiles') :
              /\ InFlightAfterTick(projectiles'[i])
              /\ \E j \in 1..Len(projectiles) : Moved(projectiles[j], projectiles'[i])
        /\ \A k \in 1..Len(log'.gone) :
              log'.gone[k].why = "expired" <=> log'.gone[k].life <= 0]_vars
\* a projectile ran out in the tick in which another one left the map
C35_Witness ==
  /\ log.op = "tick"
  /\ \E k \in 1..Len(log.gone) : log.gone[k].why = "expired"
  /\ \E k \in 1..Len(log.gone) : log.gone[k].why = "wall"

\* C36: state.tick never decreases on a peer; a step of the simulation
\* leaves it or adds one, and a snapshot applied on a client does not move
\* it backwards.
C36_TickNeverDecreases ==
  /\ tick >= log.was
  /\ log.op = "tick" => tick \in {log.was, log.was + 1}

\* the entries a step pushes out of a feed that its additions overfill
Overfill(ev, k) ==
  IF Len(ev.feed) + k > MAX_EVENTS THEN Len(ev.feed) + k - MAX_EVENTS ELSE 0

HasEvent(feed, text, timer) ==
  \E j \in 1..Len(feed) : feed[j].text = text /\ feed[j].timer = timer

FeedInOrder(feed) ==
  \A i, j \in 1..Len(feed) : i < j => feed[i].text < feed[j].text

\* C37: the event feed never holds more than 5 entries, all of them with a
\* display timer above 0 and in the order they were added; a game-logic step
\* keeps an old entry, its timer lowered by the step's dt, exactly when the
\* step's additions did not overfill the feed past it (the oldest entries go
\* first) and its timer stays above 0, and it keeps each added entry on the
\* same terms
C37_EventFeedBounded ==
  /\ [](/\ Len(events.feed) <= 5
        /\ \A i \in 1..Len(events.feed) : events.feed[i].timer > 0
        /\ FeedInOrder(events.feed))
  /\ [][LET k == events'.serial - events.serial
            dt == events'.dt
            over == Overfill(events, k)
        IN /\ \A i \in 1..Len(events.feed) :
                /\ (events.feed[i].text \in TextsOf(events'.feed))
                     <=> (i > over /\ events.feed[i].timer > dt)
                /\ events.feed[i].text \in TextsOf(events'.feed)
                     => HasEvent(events'.feed, events.feed[i].text, events.feed[i].timer - dt)
           /\ \A n \in 1..k :
                LET text == events.serial + n - 1
                IN /\ (text \in TextsOf(events'.feed))
                        <=> (Len(events.feed) + n > over /\ EVENT_DISPLAY_TIME > dt)
                   /\ text \in TextsOf(events'.feed)
                        => HasEvent(events'.feed, text, EVENT_DISPLAY_TIME - dt)
           /\ TextsOf(events'.feed) \subseteq
                TextsOf(events.feed) \cup (events.serial..(events.serial + k - 1))]_vars

\* a step whose additions push the oldest entry out of the full feed while
\* the timer of another entry runs out, leaving the feed short of full
C37_Witness ==
  /\ events.shifted # {}
  /\ events.spliced # {}
  /\ events.feed # << >>
  /\ \A s \in events.shifted : \A p \in events.spliced : s < p

TouchesOf(l) == {l.touches[i] : i \in 1..Len(l.touches)}

\* C38: a player that is not dead and stands within the touch-return radius
\* of its own team's flag when its turn in the step comes, the flag uncarried
\* with dropTimer above 0, leaves that flag at its base with dropTimer 0; no
\* player's turn returns the other team's flag, and a dead player's turn
\* changes no flag
C38_TouchReturnsOwnFlag ==
  \A r \in TouchesOf(log) :
     /\ (r.state # "dead" /\ r.dropped /\ r.near) => r.homeAfter
     /\ r.otherSame
     /\ r.state = "dead" => r.ownSame

\* a defender returns its flag from beside the dead carrier that dropped it
C38_Witness ==
  \E r, e \in TouchesOf(log) :
     /\ r.state # "dead" /\ r.dropped /\ r.near /\ r.homeAfter /\ ~r.ownSame
     /\ e.team # r.team /\ e.state = "dead" /\ e.otherDropped /\ e.nearOther

\* at least two members are listed and each is ready as far as this peer knows
AllPresentReady(mm) ==
  Cardinality(mm.members) >= 2 /\ \A id \in mm.members : ready(mm, id)

\* C39: the lobby countdown of a peer runs only while at least 2 members are
\* present and all of them are ready as known to that peer, and the peer
\* calls triggerStart from its countdown only then
C39_CountdownNeedsAllReady ==
  /\ lobby.countdownInterval => AllPresentReady(lobby)
  /\ lobby.op = "triggerStart" => AllPresentReady(lobby)

====
